---- MODULE Spec2Model ----
(***************************************************************************)
(* DB2 -> Snowflake DDL converter: scripts/01_split_db2_ddl.py (comment    *)
(* stripper, statement segmenter) and scripts/02_convert_to_snowflake.py   *)
(* (type/default rule engine, column parser, primary-key extractor,        *)
(* statement rewriter), with the per-file processing and the batch loop    *)
(* of either script's main.                                                *)
(*                                                                         *)
(* Text is modelled as TLA+ strings, handled character by character with   *)
(* Len, SubSeq and \o.  Positions are 1-based (Python's are 0-based); 0    *)
(* stands for Python's "not found" (-1 / None).                            *)
(***************************************************************************)
EXTENDS Integers, Sequences, FiniteSets, TLC

VARIABLES
    strip_in,           \* 01: the text handed to strip_comments
    strip_out,          \* 01: results of the successive strip_comments passes
    lines,              \* 01: extract_create_table_statements: content.split('\n')
    idx,                \* 01: number of lines the for loop has consumed
    current_statement,  \* 01: accumulator of the open statement
    paren_count,        \* 01: running parenthesis depth
    in_create_table,    \* 01: inside a CREATE TABLE statement
    statements,         \* 01: statements emitted so far
    seg_pc,             \* 01: "scan" | "flush" | "done"
    issues,             \* 02: the issues log file, one string per line
    calls,              \* 02: the rule-engine calls made so far, with their results
    statement,          \* 02: the table file's statement handed to the rewriter
    table_name,         \* 02: table name process_table_file derives from the file name
    primary_keys,       \* 02: result of extract_primary_keys (<<"?">> before the call)
    converted,          \* 02: result of convert_db2_to_snowflake ("?" before the call)
    conv_issues,        \* 02: issue lines the rewrite appended
    conv_pc,            \* 02: "start" | "keys" | "done"
    stage,              \* which script's main runs: "split" (01) | "convert" (02)
    selftest,           \* main: args.selftest
    input_dir_exists,   \* main: input_dir.exists()
    sql_files,          \* the candidate files of the input directory, in glob order
    unwritable,         \* the files whose write fails: name or path -> how it fails
    file_idx,           \* main: number of input files the loop has processed
    manifest_data,      \* 01 main: the manifest list
    tables_found,       \* 01 main: counter of extracted tables
    converted_count,    \* 02 main: counter of converted files
    outputs,            \* the output directory: file name -> content
    manifest_file,      \* 01: data/output/manifest.json, path -> content when it exists
    result,             \* what the last process_input_file / process_table_file left
    batch_log,          \* what logging.error / logging.warning were called with
    exit_code,          \* what main returned (-1 while it runs)
    batch_pc            \* "start" | "loop" | "done" | "raised" (an exception left main)

stripVars == <<strip_in, strip_out>>
segVars   == <<lines, idx, current_statement, paren_count, in_create_table,
               statements, seg_pc>>
ruleVars  == <<issues, calls>>
convVars  == <<statement, table_name, primary_keys, converted, conv_issues, conv_pc>>
batchVars == <<stage, selftest, input_dir_exists, sql_files, unwritable, file_idx,
               manifest_data, tables_found, converted_count, outputs, manifest_file,
               result, batch_log, exit_code, batch_pc>>
vars      == <<stripVars, segVars, ruleVars, convVars, batchVars>>

(***************************************************************************)
(* Bounds of the model.                                                    *)
(***************************************************************************)
MaxTextLen == 8     \* longest text handed to strip_comments
MaxPasses  == 2     \* strip_comments passes over one text
MaxLines   == 4     \* lines of a segmenter input
MaxCalls   == 1     \* rule-engine calls in one run
MaxBody    == 2     \* body lines of a statement handed to the rewriter
MaxLogCalls == 2    \* log_issue calls in one run
MaxFiles   == 2     \* input files a batch run finds

(***************************************************************************)
(* Python str / re primitives.                                             *)
(***************************************************************************)
At(s, i) == SubSeq(s, i, i)                 \* s[i-1]

Take(s, n) == SubSeq(s, 1, n)               \* s[:n]

Drop(s, n) == SubSeq(s, n + 1, Len(s))      \* s[n:]

Min(S) == CHOOSE x \in S : \A y \in S : x <= y

Max(S) == CHOOSE x \in S : \A y \in S : x >= y

LowerAZ == "abcdefghijklmnopqrstuvwxyz"

UpperAZ == "ABCDEFGHIJKLMNOPQRSTUVWXYZ"

Digits == "0123456789"

\* the characters of a string
CharsOf(s) == {At(s, i) : i \in 1..Len(s)}

LowerChars == CharsOf(LowerAZ)

WordChars == CharsOf(UpperAZ) \cup LowerChars \cup CharsOf(Digits) \cup {"_"}

\* the upper-case letter of each lower-case letter
UpperOf ==
    [c \in LowerChars |->
        At(UpperAZ, CHOOSE i \in 1..Len(LowerAZ) : At(LowerAZ, i) = c)]

\* \s of re and the whitespace of str.strip()/str.split(), over ASCII texts:
\* space, \t, \n, \r, \f, and the control characters 0x0B (vertical tab),
\* 0x1C, 0x1D, 0x1E and 0x1F, written raw in the last five strings
IsSpace(c) == c \in {" ", "\t", "\n", "\r", "\f", "", "", "", "", ""}

\* \w of re (ASCII)
IsWord(c) == c \in WordChars

UpperChar(c) == IF c \in LowerChars THEN UpperOf[c] ELSE c

\* str.upper()
RECURSIVE Upper(_)
Upper(s) ==
    IF Len(s) <= 1 THEN UpperChar(s)
    ELSE Upper(Take(s, Len(s) \div 2)) \o Upper(Drop(s, Len(s) \div 2))

\* s[i-1:].startswith(sub)
StartsWithAt(s, sub, i) ==
    /\ i >= 1
    /\ i + Len(sub) - 1 <= Len(s)
    /\ SubSeq(s, i, i + Len(sub) - 1) = sub

\* str.startswith
StartsWith(s, sub) == StartsWithAt(s, sub, 1)

\* str.endswith
EndsWith(s, sub) == StartsWithAt(s, sub, Len(s) - Len(sub) + 1)

\* s.find(sub, i-1) + 1
FindFrom(s, sub, i) ==
    LET ps == {p \in i..(Len(s) + 1) : StartsWithAt(s, sub, p)}
    IN  IF ps = {} THEN 0 ELSE Min(ps)

\* s.find(sub) + 1
Find(s, sub) == FindFrom(s, sub, 1)

\* sub in s
Contains(s, sub) == Find(s, sub) # 0

\* s.replace(old, new), old non-empty
RECURSIVE Replace(_, _, _)
Replace(s, old, new) ==
    LET p == Find(s, old)
    IN  IF p = 0 THEN s
        ELSE Take(s, p - 1) \o new \o Replace(Drop(s, p - 1 + Len(old)), old, new)

\* s.count(c), c one character
Count(s, c) == Cardinality({i \in 1..Len(s) : At(s, i) = c})

\* the character classes the regular expressions use
InClass(c, cls) ==
    CASE cls = "s"   -> IsSpace(c)                      \* \s
      [] cls = "S"   -> ~IsSpace(c)                     \* \S
      [] cls = "w"   -> IsWord(c)                       \* \w
      [] cls = "tok" -> ~IsSpace(c) /\ c # ","          \* [^,\s]
      [] cls = "seg" -> c # "," /\ c # "\n"            \* [^,\n]
      [] cls = "npr" -> c # ")"                         \* [^)]

\* end (inclusive) of the longest run of characters of class cls that starts at
\* position i >= 1; i - 1 when s[i] is not of the class
RunEnd(s, i, cls) ==
    IF i > Len(s) THEN i - 1
    ELSE Min({j \in i..(Len(s) + 1) : j > Len(s) \/ ~InClass(At(s, j), cls)}) - 1

\* start of the longest run of characters of class cls that ends at position
\* e <= Len(s); e + 1 when s[e] is not of the class
RunStart(s, e, cls) ==
    IF e < 1 THEN e + 1
    ELSE Max({j \in 0..e : j < 1 \/ ~InClass(At(s, j), cls)}) + 1

\* str.lstrip()
LStrip(s) == Drop(s, RunEnd(s, 1, "s"))

\* str.rstrip()
RStrip(s) == Take(s, RunStart(s, Len(s), "s") - 1)

\* str.strip()
Strip(s) == LStrip(RStrip(s))

\* s.split('\n')
RECURSIVE SplitLines(_)
SplitLines(s) ==
    LET p == Find(s, "\n")
    IN  IF p = 0 THEN <<s>> ELSE <<Take(s, p - 1)>> \o SplitLines(Drop(s, p))

\* sep.join(seq)
RECURSIVE Join(_, _)
Join(seq, sep) ==
    IF seq = <<>> THEN ""
    ELSE IF Len(seq) = 1 THEN seq[1]
    ELSE seq[1] \o sep \o Join(Tail(seq), sep)

\* s.split(',')
RECURSIVE SplitComma(_)
SplitComma(s) ==
    LET p == Find(s, ",")
    IN  IF p = 0 THEN <<s>> ELSE <<Take(s, p - 1)>> \o SplitComma(Drop(s, p))

\* s.split()[0] of a stripped, non-empty s
FirstToken(s) == Take(s, RunEnd(s, 1, "S"))

\* all strings over the characters of alphabet, of length at most n
StringsUpTo(alphabet, n) ==
    LET RECURSIVE Build(_)
        Build(k) ==
            IF k = 0 THEN {""}
            ELSE LET shorter == Build(k - 1)
                 IN  shorter \cup {s \o At(alphabet, i) :
                                     s \in {t \in shorter : Len(t) = k - 1},
                                     i \in 1..Len(alphabet)}
    IN  Build(n)

(***************************************************************************)
(* repr() of a str and json.dump of a str, over ASCII texts.               *)
(***************************************************************************)
\* the control characters 0x01 .. 0x1F in the order of their codes, then 0x7F
\* (written raw but for \t, \n, \f and \r)
ControlChars == "\t\n\f\r"

HexDigits == "0123456789abcdef"

\* ord(c) of a control character
ControlCode(c) ==
    LET i == CHOOSE k \in 1..Len(ControlChars) : At(ControlChars, k) = c
    IN  IF i = Len(ControlChars) THEN 127 ELSE i

\* two hexadecimal digits of a number below 256
Hex2(n) == At(HexDigits, (n \div 16) + 1) \o At(HexDigits, (n % 16) + 1)

\* one character inside repr(s), q being the quote repr chose
ReprChar(c, q) ==
    IF c = "\\" THEN "\\\\"
    ELSE IF c = q THEN "\\" \o c
    ELSE IF c = "\n" THEN "\\n"
    ELSE IF c = "\r" THEN "\\r"
    ELSE IF c = "\t" THEN "\\t"
    ELSE IF c \in CharsOf(ControlChars) THEN "\\x" \o Hex2(ControlCode(c))
    ELSE c

RECURSIVE ReprBody(_, _)
ReprBody(s, q) ==
    IF Len(s) = 0 THEN ""
    ELSE IF Len(s) = 1 THEN ReprChar(s, q)
    ELSE ReprBody(Take(s, Len(s) \div 2), q) \o ReprBody(Drop(s, Len(s) \div 2), q)

\* repr(s): in double quotes when s holds ' and no ", in single quotes otherwise
Repr(s) ==
    IF Contains(s, "'") /\ ~Contains(s, "\"")
    THEN "\"" \o ReprBody(s, "\"") \o "\""
    ELSE "'" \o ReprBody(s, "'") \o "'"

\* one character inside a JSON string (ensure_ascii: 0x7F is escaped too)
JsonChar(c) ==
    IF c = "\\" THEN "\\\\"
    ELSE IF c = "\"" THEN "\\\""
    ELSE IF c = "\n" THEN "\\n"
    ELSE IF c = "\r" THEN "\\r"
    ELSE IF c = "\t" THEN "\\t"
    ELSE IF c = "\f" THEN "\\f"
    ELSE IF c \in CharsOf(ControlChars) /\ ControlCode(c) = 8 THEN "\\b"
    ELSE IF c \in CharsOf(ControlChars) THEN "\\u00" \o Hex2(ControlCode(c))
    ELSE c

RECURSIVE JsonBody(_)
JsonBody(s) ==
    IF Len(s) = 0 THEN ""
    ELSE IF Len(s) = 1 THEN JsonChar(s)
    ELSE JsonBody(Take(s, Len(s) \div 2)) \o JsonBody(Drop(s, Len(s) \div 2))

\* json.dumps(s)
JsonString(s) == "\"" \o JsonBody(s) \o "\""

(***************************************************************************)
(* 01_split_db2_ddl.py: strip_comments                                     *)
(***************************************************************************)
\* re.sub(r'/\*.*?\*/', '', content, flags=re.DOTALL): the leftmost "/*", the
\* nearest "*/" that starts after it, removed; the scan resumes behind the match.
RECURSIVE RemoveBlockComments(_)
RemoveBlockComments(s) ==
    LET p == Find(s, "/*")
        q == IF p = 0 THEN 0 ELSE FindFrom(s, "*/", p + 2)
    IN  IF p = 0 \/ q = 0 THEN s
        ELSE Take(s, p - 1) \o RemoveBlockComments(Drop(s, q + 1))

\* the body of the for loop over the lines
RemoveLineComment(line) ==
    IF Contains(line, "--")
    THEN RStrip(Take(line, Find(line, "--") - 1))
    ELSE line

strip_comments(content) ==
    LET ls == SplitLines(RemoveBlockComments(content))
    IN  Join([i \in 1..Len(ls) |-> RemoveLineComment(ls[i])], "\n")

(***************************************************************************)
(* Regular-expression steps.  A position 0 means "no match so far".        *)
(***************************************************************************)
\* a literal at position i: the position behind it
AfterLit(s, i, lit) == IF i # 0 /\ StartsWithAt(s, lit, i) THEN i + Len(lit) ELSE 0

\* cls+ (greedy) at position i: the position behind the longest run
AfterRun(s, i, cls) ==
    IF i = 0 THEN 0
    ELSE LET e == RunEnd(s, i, cls) IN IF e >= i THEN e + 1 ELSE 0

\* CREATE\s+TABLE\s+ at position i of the upper-cased text (re.IGNORECASE): the
\* position of the character behind it
AfterCreateTable(u, i) ==
    AfterRun(u, AfterLit(u, AfterRun(u, AfterLit(u, i, "CREATE"), "s"), "TABLE"), "s")

(***************************************************************************)
(* 01_split_db2_ddl.py: extract_create_table_statements                    *)
(***************************************************************************)
\* re.match(r'CREATE\s+TABLE\s+\w+(?:\.\w+)?', line, re.IGNORECASE)
IsCreateTableLine(line) ==
    LET u == Upper(line) IN AfterRun(u, AfterCreateTable(u, 1), "w") # 0

\* line.count('(') - line.count(')')
ParenBalance(line) == Count(line, "(") - Count(line, ")")

\* The scanner's locals: current_statement, paren_count, in_create_table and
\* statements, as they are before the first line.
SegStart ==
    [current_statement |-> <<>>, paren_count |-> 0, in_create_table |-> FALSE,
     statements |-> <<>>]

\* which branch of the loop body a raw line takes
SegBranch(st, raw) ==
    LET line == Strip(raw)
    IN  IF line = "" THEN "blank"
        ELSE IF IsCreateTableLine(line) THEN "open"
        ELSE IF st.in_create_table THEN "body"
        ELSE "outside"

\* SegStep with the flush of lines 106-108 left out: a statement still open when
\* the next opening line arrives is dropped
SegStep_drops_open(st, raw) ==
    LET line == Strip(raw)
        br   == SegBranch(st, raw)
    IN  CASE br = "blank" -> st
          [] br = "open" ->
                [current_statement |-> <<line>>,
                 paren_count       |-> Count(line, "(") - Count(line, ")"),
                 in_create_table   |-> TRUE,
                 statements        |-> st.statements]
          [] br = "body" ->
                LET cur   == Append(st.current_statement, line)
                    depth == st.paren_count + Count(line, "(") - Count(line, ")")
                IN  IF depth <= 0 /\ EndsWith(line, ";")
                    THEN [current_statement |-> <<>>, paren_count |-> 0,
                          in_create_table |-> FALSE,
                          statements |-> Append(st.statements, Join(cur, "\n"))]
                    ELSE [current_statement |-> cur, paren_count |-> depth,
                          in_create_table |-> TRUE, statements |-> st.statements]
          [] br = "outside" -> st

\* one iteration of the for loop
SegStep(st, raw) ==
    LET line == Strip(raw)
        br   == SegBranch(st, raw)
    IN  CASE br = "blank" -> st
          [] br = "open" ->
                [current_statement |-> <<line>>,
                 paren_count       |-> ParenBalance(line),
                 in_create_table   |-> TRUE,
                 statements        |->
                     IF st.current_statement # <<>> /\ st.in_create_table
                     THEN Append(st.statements, Join(st.current_statement, "\n"))
                     ELSE st.statements]
          [] br = "body" ->
                LET cur   == Append(st.current_statement, line)
                    depth == st.paren_count + ParenBalance(line)
                IN  IF depth <= 0 /\ EndsWith(line, ";")
                    THEN [current_statement |-> <<>>, paren_count |-> 0,
                          in_create_table |-> FALSE,
                          statements |-> Append(st.statements, Join(cur, "\n"))]
                    ELSE [current_statement |-> cur, paren_count |-> depth,
                          in_create_table |-> TRUE, statements |-> st.statements]
          [] br = "outside" -> st

\* SegFinish with lines 126-127 left out: the statement still open at the end of
\* the input is lost
SegFinish_no_flush(st) == st.statements

\* the statement still open at the end of the input is emitted
SegFinish(st) ==
    IF st.current_statement # <<>> /\ st.in_create_table
    THEN Append(st.statements, Join(st.current_statement, "\n"))
    ELSE st.statements

RECURSIVE SegScan(_, _)
SegScan(st, ls) == IF ls = <<>> THEN st ELSE SegScan(SegStep(st, Head(ls)), Tail(ls))

extract_create_table_statements(content) ==
    SegFinish(SegScan(SegStart, SplitLines(content)))

(***************************************************************************)
(* 01_split_db2_ddl.py: extract_schema_table_name, process_input_file      *)
(***************************************************************************)
\* CREATE\s+TABLE\s+(\w+)\.(\w+) at position i (re.IGNORECASE; u is s
\* upper-cased): <<schema, table>>, <<>> when there is no match
SchemaTableAt(s, u, i) ==
    LET b  == AfterCreateTable(u, i)
        e1 == AfterRun(s, b, "w")
        e2 == AfterRun(s, AfterLit(s, e1, "."), "w")
    IN  IF e2 = 0 THEN <<>> ELSE <<SubSeq(s, b, e1 - 1), SubSeq(s, e1 + 1, e2 - 1)>>

\* CREATE\s+TABLE\s+(\w+) at position i: <<"DEFAULT", table>>, <<>> when there
\* is no match
DefaultTableAt(s, u, i) ==
    LET b == AfterCreateTable(u, i)
        e == AfterRun(s, b, "w")
    IN  IF e = 0 THEN <<>> ELSE <<"DEFAULT", SubSeq(s, b, e - 1)>>

\* re.search of the qualified pattern over the whole statement, then of the
\* plain one; <<>> stands for (None, None)
extract_schema_table_name(stmt) ==
    LET u  == Upper(stmt)
        qs == {i \in 1..Len(stmt) : SchemaTableAt(stmt, u, i) # <<>>}
        ps == {i \in 1..Len(stmt) : DefaultTableAt(stmt, u, i) # <<>>}
    IN  IF qs # {} THEN SchemaTableAt(stmt, u, Min(qs))
        ELSE IF ps # {} THEN DefaultTableAt(stmt, u, Min(ps))
        ELSE <<>>

\* line 202
OutputFilename(schema, table) == schema \o "__" \o table \o ".sql"

\* main, line 309: the source identity handed to process_input_file
SourceFilePath(name) == "data/input/" \o name

\* main, line 238 (default of --out): the directory of the table files
TableDir == "data/output/original_db2_table_creation"

\* line 206: datetime.now(timezone.utc).isoformat(), as the clock gave it
ExtractedAt == "2024-05-01T10:00:00+00:00"

\* line 207
ProvenanceHeader(source_file_path) ==
    "-- Source file: " \o source_file_path \o "\n-- Extracted: " \o ExtractedAt \o "\n\n"

\* open(path, 'w') and write: the directory with the file (re)written
PutFile(dir, name, content) ==
    [n \in (DOMAIN dir) \cup {name} |-> IF n = name THEN content ELSE dir[n]]

\* A write that fails is described by [written, error]: written < 0 when open
\* itself is refused, otherwise the number of characters that reached the file
\* before the write or the close raised; error is the strerror part of str(e).
\* The directory afterwards: untouched when open was refused; otherwise open
\* has created or emptied the file and it holds what was written of the text.
FailedWrite(dir, name, text, fault) ==
    IF fault.written < 0 THEN dir
    ELSE PutFile(dir, name, IF fault.written < Len(text) THEN Take(text, fault.written)
                            ELSE text)

\* lines 215-220
ManifestEntry(id, source_file_path) ==
    [schema |-> id[1], table |-> id[2],
     path |-> TableDir \o "/" \o OutputFilename(id[1], id[2]),
     source_file |-> source_file_path]

\* StoreTable with the manifest entry appended before the write is tried
StoreTable_records_first(acc, stmt, id, source_file_path, bad) ==
    IF OutputFilename(id[1], id[2]) \in DOMAIN bad
    THEN [acc EXCEPT !.outputs = FailedWrite(@, OutputFilename(id[1], id[2]),
                                             ProvenanceHeader(source_file_path) \o stmt,
                                             bad[OutputFilename(id[1], id[2])]),
                     !.log = Append(@, <<"error", "Error writing",
                                         OutputFilename(id[1], id[2])>>),
                     !.manifest_data = Append(@, ManifestEntry(id, source_file_path))]
    ELSE [acc EXCEPT !.outputs = PutFile(@, OutputFilename(id[1], id[2]),
                                         ProvenanceHeader(source_file_path) \o stmt),
                     !.manifest_data = Append(@, ManifestEntry(id, source_file_path))]

\* lines 210-224: the table file written and its manifest entry appended, or the
\* write failed -- leaving the directory as FailedWrite says -- and an error
\* logged
StoreTable(acc, stmt, id, source_file_path, bad) ==
    IF OutputFilename(id[1], id[2]) \in DOMAIN bad
    THEN [acc EXCEPT !.outputs = FailedWrite(@, OutputFilename(id[1], id[2]),
                                             ProvenanceHeader(source_file_path) \o stmt,
                                             bad[OutputFilename(id[1], id[2])]),
                     !.log = Append(@, <<"error", "Error writing",
                                         OutputFilename(id[1], id[2])>>)]
    ELSE [acc EXCEPT !.outputs = PutFile(@, OutputFilename(id[1], id[2]),
                                         ProvenanceHeader(source_file_path) \o stmt),
                     !.manifest_data = Append(@, ManifestEntry(id, source_file_path))]

\* one iteration of the loop of lines 194-224
ExtractTable(acc, stmt, source_file_path, bad) ==
    IF extract_schema_table_name(stmt) = <<>>
    THEN [acc EXCEPT !.log = Append(@, <<"warning", "Could not extract schema/table",
                                         source_file_path>>)]
    ELSE StoreTable(acc, stmt, extract_schema_table_name(stmt), source_file_path, bad)

RECURSIVE ExtractTables(_, _, _, _)
ExtractTables(acc, stmts, source_file_path, bad) ==
    IF stmts = <<>> THEN acc
    ELSE ExtractTables(ExtractTable(acc, Head(stmts), source_file_path, bad),
                       Tail(stmts), source_file_path, bad)

\* lines 189-224, given the statements line 187 found
ProcessStatements(acc, stmts, input_name, source_file_path, bad) ==
    IF stmts = <<>>
    THEN [acc EXCEPT !.log = Append(@, <<"warning", "No CREATE TABLE statements found",
                                         input_name>>)]
    ELSE ExtractTables(acc, stmts, source_file_path, bad)

\* lines 177-178 (02: lines 394-395): f.read() of a file opened in text mode
\* gives every "\r\n" and every other "\r" of the file as "\n"
ReadText(text) == Replace(Replace(text, "\r\n", "\n"), "\r", "\n")

\* process_input_file on an input file [name, content, readable, raises, error],
\* the output directory and the manifest list as they are, and the output files
\* whose write fails (name -> [written, error]): the directory and the list
\* afterwards, and what was logged at warning or error level
process_input_file(file, dir, manifest, source_file_path, bad) ==
    IF ~file.readable
    THEN [outputs |-> dir, manifest_data |-> manifest,
          log |-> <<<<"error", "Error reading", file.name>>>>]
    ELSE CHOOSE r \in {ProcessStatements([outputs |-> dir, manifest_data |-> manifest,
                                          log |-> <<>>],
                                         stmts, file.name, source_file_path, bad) :
                          stmts \in {extract_create_table_statements(
                                         strip_comments(ReadText(file.content)))}} : TRUE

\* main, lines 318 and 276: the manifest file
ManifestPath == "data/output/manifest.json"

\* json.dump(manifest_data, f, indent=2): one entry
ManifestJsonEntry(e) ==
    "  {\n    \"schema\": " \o JsonString(e.schema)
    \o ",\n    \"table\": " \o JsonString(e.table)
    \o ",\n    \"path\": " \o JsonString(e.path)
    \o ",\n    \"source_file\": " \o JsonString(e.source_file) \o "\n  }"

\* json.dump(manifest_data, f, indent=2): the text of the manifest file
ManifestJson(manifest) ==
    IF manifest = <<>> THEN "[]"
    ELSE "[\n" \o Join([k \in 1..Len(manifest) |-> ManifestJsonEntry(manifest[k])], ",\n")
         \o "\n]"

\* main, lines 253-260: the statement of the self-test
SelfTestContent ==
    "CREATE TABLE APP.ACCOUNT (\n"
    \o "  ACCOUNT_ID INTEGER NOT NULL CONSTRAINT PK_ACC PRIMARY KEY,\n"
    \o "  NAME VARCHAR(100) FOR SBCS DATA NOT NULL WITH DEFAULT '',\n"
    \o "  CRT_TS TIMESTAMP NOT NULL WITH DEFAULT CURRENT TIMESTAMP,\n"
    \o "  BAL DECIMAL(18,2) WITH DEFAULT 0,\n"
    \o "  NOTES CLOB(1M),\n"
    \o "  CODE CHAR(3) WITH DEFAULT\n"
    \o ");"

(***************************************************************************)
(* 02_convert_to_snowflake.py: log_issue                                   *)
(***************************************************************************)
SnippetLimit == 80

\* log_issue with line 53 left out: the snippet is written whole
log_issue_whole_snippet(table, column_section, issue, snippet) ==
    table \o " | " \o column_section \o " | " \o issue \o " | " \o snippet

\* the line log_issue appends to the issues file (without its final newline)
log_issue(table, column_section, issue, snippet) ==
    table \o " | " \o column_section \o " | " \o issue \o " | "
          \o (IF Len(snippet) > SnippetLimit THEN Take(snippet, SnippetLimit)
              ELSE snippet)

(***************************************************************************)
(* 02_convert_to_snowflake.py: convert_data_type                           *)
(* Functions that log return [ret |-> value, log |-> lines appended].      *)
(***************************************************************************)
\* lines 75-80: upper-cased, trimmed, FOR SBCS DATA removed
NormalizeType(db2_type) ==
    LET t == Upper(Strip(db2_type))
    IN  IF Contains(t, "FOR SBCS DATA") THEN Strip(Replace(t, "FOR SBCS DATA", ""))
        ELSE t

\* the branch of the if/elif chain (lines 83-133) a normalized type takes
TypeRule(t) ==
    IF Contains(t, "FOR BIT DATA") THEN "for_bit_data"
    ELSE IF StartsWith(t, "DECIMAL") \/ StartsWith(t, "NUMERIC") THEN "decimal"
    ELSE IF t \in {"SMALLINT", "INTEGER", "BIGINT"} THEN "integer"
    ELSE IF t \in {"REAL", "DOUBLE", "DECFLOAT"} THEN "float"
    ELSE IF StartsWith(t, "CHAR") \/ StartsWith(t, "VARCHAR") THEN "char"
    ELSE IF StartsWith(t, "GRAPHIC") \/ StartsWith(t, "VARGRAPHIC") THEN "graphic"
    ELSE IF StartsWith(t, "CLOB") THEN "clob"
    ELSE IF StartsWith(t, "BLOB") THEN "blob"
    ELSE IF t = "XML" THEN "xml"
    ELSE IF t = "DATE" THEN "date"
    ELSE IF t = "TIME" THEN "time"
    ELSE IF t = "TIMESTAMP WITH TIME ZONE" THEN "timestamp_tz"
    ELSE IF t = "TIMESTAMP" THEN "timestamp"
    ELSE "unknown"

\* the body of the branch: the value returned and the lines logged
TypeRuleResult(rule, t, table, column_name) ==
        CASE rule = "for_bit_data" ->
                [ret |-> "BINARY",
                 log |-> <<log_issue(table, column_name,
                                     "mapped to BINARY from FOR BIT DATA", t)>>]
          [] rule = "decimal" ->
                [ret |-> Replace(Replace(t, "DECIMAL", "NUMBER"), "NUMERIC", "NUMBER"),
                 log |-> <<>>]
          [] rule = "integer" -> [ret |-> t, log |-> <<>>]
          [] rule = "float" -> [ret |-> "FLOAT", log |-> <<>>]
          [] rule = "char" -> [ret |-> t, log |-> <<>>]
          [] rule = "graphic" ->
                [ret |-> Replace(Replace(t, "GRAPHIC", "VARCHAR"),
                                 "VARGRAPHIC", "VARCHAR"),
                 log |-> <<log_issue(table, column_name,
                                     "mapped (VAR)GRAPHIC to VARCHAR", t)>>]
          [] rule = "clob" ->
                [ret |-> "VARCHAR",
                 log |-> <<log_issue(table, column_name,
                                     "CLOB mapped to VARCHAR (possible size loss)", t)>>]
          [] rule = "blob" -> [ret |-> "BINARY", log |-> <<>>]
          [] rule = "xml" ->
                [ret |-> "VARIANT",
                 log |-> <<log_issue(table, column_name, "XML mapped to VARIANT", t)>>]
          [] rule = "date" -> [ret |-> "DATE", log |-> <<>>]
          [] rule = "time" -> [ret |-> "TIME", log |-> <<>>]
          [] rule = "timestamp_tz" -> [ret |-> "TIMESTAMP_TZ", log |-> <<>>]
          [] rule = "timestamp" -> [ret |-> "TIMESTAMP_NTZ", log |-> <<>>]
          [] rule = "unknown" -> [ret |-> t, log |-> <<>>]

\* convert_data_type with the log_issue call of the CLOB branch left out
convert_data_type_silent_clob(db2_type, table, column_name) ==
    LET t == NormalizeType(db2_type)
        r == TypeRuleResult(TypeRule(t), t, table, column_name)
    IN  IF TypeRule(t) = "clob" THEN [r EXCEPT !.log = <<>>] ELSE r

convert_data_type(db2_type, table, column_name) ==
    LET t == NormalizeType(db2_type)
    IN  TypeRuleResult(TypeRule(t), t, table, column_name)

(***************************************************************************)
(* 02_convert_to_snowflake.py: convert_default_value                       *)
(***************************************************************************)
\* \b at position i: exactly one of s[i-1], s[i] is a word character
WordBoundary(s, i) ==
    (i - 1 >= 1 /\ i - 1 <= Len(s) /\ IsWord(At(s, i - 1)))
        # (i >= 1 /\ i <= Len(s) /\ IsWord(At(s, i)))

\* \bW1\b (words = <<W1>>) or \bW1\s+W2\b (words = <<W1, W2>>) at position i,
\* re.IGNORECASE (u is s upper-cased): the position behind the match, 0 if there
\* is none
PhraseAt(s, u, i, words) ==
    LET e1 == IF WordBoundary(s, i) THEN AfterLit(u, i, words[1]) ELSE 0
        e  == IF Len(words) = 1 THEN e1
              ELSE AfterLit(u, AfterRun(u, e1, "s"), words[2])
    IN  IF e # 0 /\ WordBoundary(s, e) THEN e ELSE 0

\* re.search of the phrase
HasPhrase(s, words) ==
    LET u == Upper(s) IN \E i \in 1..Len(s) : PhraseAt(s, u, i, words) # 0

\* re.sub of the phrase by repl, over s from position i on
RECURSIVE SubPhraseFrom(_, _, _, _, _)
SubPhraseFrom(s, u, i, words, repl) ==
    IF i > Len(s) THEN ""
    ELSE LET e == PhraseAt(s, u, i, words)
         IN  IF e # 0 THEN repl \o SubPhraseFrom(s, u, e, words, repl)
             ELSE At(s, i) \o SubPhraseFrom(s, u, i + 1, words, repl)

SubPhrase(s, words, repl) == SubPhraseFrom(s, Upper(s), 1, words, repl)

\* lines 167-173
ConvertCurrentFunctions(e) ==
    SubPhrase(SubPhrase(SubPhrase(e, <<"CURRENT", "TIMESTAMP">>, "CURRENT_TIMESTAMP"),
                        <<"CURRENT", "DATE">>, "CURRENT_DATE"),
              <<"CURRENT", "TIME">>, "CURRENT_TIME")

\* lines 163-165
StripWithDefaultPrefix(e) ==
    IF StartsWith(Upper(e), "WITH DEFAULT ") THEN Drop(e, 13) ELSE e

\* lines 175-181, of default_expr after lines 163-173
ConvertUser(default_expr, table, column_name) ==
    IF HasPhrase(default_expr, <<"USER">>)
    THEN [ret |-> "DEFAULT " \o SubPhrase(default_expr, <<"USER">>, "CURRENT_USER"),
          log |-> <<log_issue(table, column_name,
                              "USER converted to CURRENT_USER", default_expr)>>]
    ELSE [ret |-> "DEFAULT " \o default_expr, log |-> <<>>]

\* lines 157-181, of default_expr.strip()
ConvertStrippedDefault(default_expr, table, column_name) ==
    IF Upper(default_expr) = "WITH DEFAULT"
    THEN [ret |-> "",
          log |-> <<log_issue(table, column_name,
                              "ambiguous default removed", "WITH DEFAULT")>>]
    ELSE ConvertUser(ConvertCurrentFunctions(StripWithDefaultPrefix(default_expr)),
                     table, column_name)

convert_default_value(default_expr, table, column_name) ==
    IF default_expr = "" THEN [ret |-> "", log |-> <<>>]
    ELSE ConvertStrippedDefault(Strip(default_expr), table, column_name)

(***************************************************************************)
(* 02_convert_to_snowflake.py: parse_column_definition                     *)
(***************************************************************************)
type_end_keywords ==
    {"NOT NULL", "WITH DEFAULT", "NULL", "CONSTRAINT", "PRIMARY KEY", "UNIQUE", "CHECK"}

\* lines 215-221: type_end_pos + 1, the 1-based position of the earliest
\* occurrence of a keyword in column_def.upper(), Len + 1 if there is none
TypeEndPos(column_def) ==
    LET u  == Upper(column_def)
        ps == {Find(u, k) : k \in type_end_keywords} \ {0}
    IN  IF ps = {} THEN Len(column_def) + 1 ELSE Min(ps)

\* line 210, of the stripped column_def
ColumnName(cd) == FirstToken(cd)

\* line 224: column_def[len(column_name):type_end_pos].strip()
DataTypePart(cd) == Strip(SubSeq(cd, Len(ColumnName(cd)) + 1, TypeEndPos(cd) - 1))

\* line 225: column_def[type_end_pos:].strip()
RemainingPart(cd) == Strip(Drop(cd, TypeEndPos(cd) - 1))

\* (?:\s+[^,\s]+)* (greedy) from position e, the position behind a token: the
\* position behind the last token taken
RECURSIVE MoreTokens(_, _)
MoreTokens(s, e) ==
    LET n == AfterRun(s, AfterRun(s, e, "s"), "tok")
    IN  IF n = 0 THEN e ELSE MoreTokens(s, n)

\* WITH\s+DEFAULT\s+([^,\s]+(?:\s+[^,\s]+)*) at position i, re.IGNORECASE (u is
\* s upper-cased): the position behind the match, 0 if there is none
DefaultClauseAt(s, u, i) ==
    LET v == AfterRun(u, AfterRun(u, AfterLit(u, AfterRun(u, AfterLit(u, i, "WITH"),
                                                          "s"), "DEFAULT"), "s"), "tok")
    IN  IF v = 0 THEN 0 ELSE MoreTokens(s, v)

\* line 235: re.search(...).group(0), "" when there is no match
DefaultMatch(remaining) ==
    LET u  == Upper(remaining)
        ps == {i \in 1..Len(remaining) : DefaultClauseAt(remaining, u, i) # 0}
    IN  IF ps = {} THEN ""
        ELSE SubSeq(remaining, Min(ps), DefaultClauseAt(remaining, u, Min(ps)) - 1)

\* lines 227-231: the NULL / NOT NULL part of the result
NullParts(remaining_upper) ==
    IF Contains(remaining_upper, "NOT NULL") THEN <<"NOT NULL">>
    ELSE IF Contains(remaining_upper, "NULL") THEN <<"NULL">>
    ELSE <<>>

\* lines 234-238: the default clause matched in remaining, converted
DefaultParts(default_match, table, column_name) ==
    IF default_match # "" THEN convert_default_value(default_match, table, column_name)
    ELSE [ret |-> "", log |-> <<>>]

\* lines 241-253: the definition assembled from its converted parts
ColumnResult(column_name, type, null_parts, default) ==
    [ret |-> Join(<<column_name, type.ret>> \o null_parts
                  \o (IF default.ret # "" THEN <<default.ret>> ELSE <<>>), " "),
     log |-> type.log \o default.log]

\* lines 227-253, of the three parts lines 210-225 cut the definition into
ConvertParts(column_name, data_type_part, remaining, table) ==
    ColumnResult(column_name,
                 convert_data_type(data_type_part, table, column_name),
                 NullParts(Upper(remaining)),
                 DefaultParts(DefaultMatch(remaining), table, column_name))

\* lines 206-253, of column_def.strip()
ParseStripped(cd, table) ==
    IF cd = "" THEN [ret |-> "", log |-> <<>>]
    ELSE ConvertParts(ColumnName(cd), DataTypePart(cd), RemainingPart(cd), table)

parse_column_definition(column_def, table) == ParseStripped(Strip(column_def), table)

(***************************************************************************)
(* 02_convert_to_snowflake.py: extract_primary_keys                        *)
(***************************************************************************)
\* PRIMARY\s+KEY at position c of the upper-cased text: the position behind it
PrimaryKeyAt(u, c) == AfterLit(u, AfterRun(u, AfterLit(u, c, "PRIMARY"), "s"), "KEY")

\* (\w+)\s+[^,\n]+\s+PRIMARY\s+KEY matches from position i with PRIMARY at c:
\* the word run from i ends at j before white space; some white space, then at
\* least one character other than ',' and newline, then white space up to c.
\* a is where [^,\n]+ starts and b where the second \s+ starts.
InlinePkMatch(s, i, c) ==
    /\ IsWord(At(s, i))
    /\ LET j  == RunEnd(s, i, "w")
           we == RunEnd(s, j + 1, "s")
       IN  /\ we >= j + 1
           /\ \E b \in RunStart(s, c - 1, "s")..(c - 1) :
                 \E a \in (j + 2)..(we + 1) :
                     a < b /\ RunStart(s, b - 1, "seg") <= a

\* re.search(r'(\w+)\s+[^,\n]+\s+PRIMARY\s+KEY', statement, re.IGNORECASE):
\* group(1) of the leftmost match, "" when there is none
InlinePkColumn(s) ==
    LET u  == Upper(s)
        cs == {c \in 1..Len(s) : PrimaryKeyAt(u, c) # 0}
        is == {i \in 1..Len(s) : \E c \in cs : i < c /\ InlinePkMatch(s, i, c)}
    IN  IF is = {} THEN "" ELSE SubSeq(s, Min(is), RunEnd(s, Min(is), "w"))

\* PRIMARY\s+KEY\s*\(([^)]+)\) at position c (re.IGNORECASE | re.DOTALL; u is s
\* upper-cased): the pair <<first, last>> of positions of group(1), <<0, 0>> when
\* there is no match
TablePkAt(s, u, c) ==
    LET k == PrimaryKeyAt(u, c)
        p == IF k = 0 THEN 0 ELSE AfterLit(s, RunEnd(s, k, "s") + 1, "(")
        e == IF p = 0 THEN 0 ELSE RunEnd(s, p, "npr")
    IN  IF p # 0 /\ e >= p /\ e < Len(s) THEN <<p, e>> ELSE <<0, 0>>

\* re.search of the table-level clause: group(1), "" when there is no match
TablePkColumns(s) ==
    LET u  == Upper(s)
        cs == {c \in 1..Len(s) : TablePkAt(s, u, c) # <<0, 0>>}
    IN  IF cs = {} THEN ""
        ELSE SubSeq(s, TablePkAt(s, u, Min(cs))[1], TablePkAt(s, u, Min(cs))[2])

extract_primary_keys(stmt) ==
    IF InlinePkColumn(stmt) # "" THEN <<InlinePkColumn(stmt)>>
    ELSE IF TablePkColumns(stmt) # ""
    THEN LET cols == SplitComma(TablePkColumns(stmt))
         IN  [n \in 1..Len(cols) |-> Strip(cols[n])]
    ELSE <<>>

(***************************************************************************)
(* 02_convert_to_snowflake.py: convert_db2_to_snowflake                    *)
(***************************************************************************)
\* CREATE\s+TABLE\s+(\w+)\.(\w+) at position i (re.IGNORECASE; u is s
\* upper-cased): "schema.table", "" when there is no match
QualifiedNameAt(s, u, i) ==
    LET b  == AfterCreateTable(u, i)
        e1 == AfterRun(s, b, "w")
        e2 == AfterRun(s, AfterLit(s, e1, "."), "w")
    IN  IF e2 = 0 THEN "" ELSE SubSeq(s, b, e2 - 1)

\* CREATE\s+TABLE\s+(\w+) at position i (re.IGNORECASE; u is s upper-cased): the
\* table, "" when there is no match
PlainNameAt(s, u, i) ==
    LET b == AfterCreateTable(u, i)
        e == AfterRun(s, b, "w")
    IN  IF e = 0 THEN "" ELSE SubSeq(s, b, e - 1)

\* lines 320-335: the line the CREATE TABLE branch appends, <<>> when neither
\* pattern is found in the line
CreateTableHeader(line) ==
    LET u  == Upper(line)
        qs == {i \in 1..Len(line) : QualifiedNameAt(line, u, i) # ""}
        ps == {i \in 1..Len(line) : PlainNameAt(line, u, i) # ""}
    IN  IF qs # {} THEN <<"CREATE TABLE " \o QualifiedNameAt(line, u, Min(qs)) \o " (">>
        ELSE IF ps # {} THEN <<"CREATE TABLE " \o PlainNameAt(line, u, Min(ps)) \o " (">>
        ELSE <<>>

skipped_options == {"PARTITION BY", "AUDIT", "DATA CAPTURE", "CCSID"}

constraint_prefixes == {"CONSTRAINT", "PRIMARY KEY", "UNIQUE", "CHECK"}

\* lines 345-347: the converted columns, all but the last followed by a comma
ColumnLines(column_definitions) ==
    [i \in 1..Len(column_definitions) |->
        "  " \o column_definitions[i]
             \o (IF i < Len(column_definitions) THEN "," ELSE "")]

\* The rewriter's locals before the first line; done is set by the break.
RewriteStart ==
    [result_lines |-> <<>>, in_columns |-> FALSE, column_definitions |-> <<>>,
     log |-> <<>>, done |-> FALSE]

\* lines 320-335: the header line appended and in_columns set, when a pattern
\* matched
OpenTable(st, header) ==
    [st EXCEPT !.result_lines = st.result_lines \o header,
               !.in_columns = st.in_columns \/ header # <<>>]

\* lines 361-364: the parsed column kept when it is not blank
AddColumn(st, col) ==
    [st EXCEPT !.column_definitions =
                   IF col.ret # "" /\ Strip(col.ret) # ""
                   THEN Append(st.column_definitions, col.ret)
                   ELSE st.column_definitions,
               !.log = st.log \o col.log]

\* one iteration of the for loop (lines 310-364)
RewriteStep(st, raw, table) ==
    LET line == Strip(raw)
    IN  IF line = "" \/ StartsWith(line, "--") THEN st
        ELSE IF StartsWith(Upper(line), "CREATE TABLE")
        THEN OpenTable(st, CreateTableHeader(line))
        ELSE IF \E k \in skipped_options : Contains(Upper(line), k) THEN st
        ELSE IF line = ")" \/ line = ");"
        THEN [st EXCEPT !.in_columns = FALSE,
                        !.result_lines = st.result_lines
                                         \o ColumnLines(st.column_definitions)
                                         \o <<");">>,
                        !.done = TRUE]
        ELSE IF st.in_columns
        THEN IF \E k \in constraint_prefixes : StartsWith(Upper(line), k) THEN st
             ELSE AddColumn(st, parse_column_definition(
                                    IF EndsWith(line, ",") THEN Take(line, Len(line) - 1)
                                    ELSE line, table))
        ELSE st

RECURSIVE RewriteScan(_, _, _)
RewriteScan(st, ls, table) ==
    IF ls = <<>> \/ st.done THEN st
    ELSE RewriteScan(RewriteStep(st, Head(ls), table), Tail(ls), table)

\* lines 301-306 and 310-372, given the keys line 308 extracted
\* lines 366-370: the ALTER TABLE line, <<>> when there are no keys
AlterTableLines(table, keys) ==
    IF keys # <<>>
    THEN <<"ALTER TABLE " \o table \o " ADD PRIMARY KEY (" \o Join(keys, ", ") \o ");">>
    ELSE <<>>

\* line 372
RewriteResult(st, alter) ==
    [ret |-> Join(st.result_lines \o alter, "\n"), log |-> st.log]

RewriteWithKeys(content, table, keys) ==
    RewriteResult(RewriteScan(RewriteStart, SplitLines(content), table),
                  AlterTableLines(table, keys))

convert_db2_to_snowflake(content, table) ==
    RewriteWithKeys(content, table, extract_primary_keys(content))

(***************************************************************************)
(* 02_convert_to_snowflake.py: process_table_file                          *)
(***************************************************************************)
\* input_file.stem of a name the glob '*.sql' matched: the name without its
\* suffix ".sql"; the name ".sql" itself has no suffix and is its own stem
Stem(name) == IF name = ".sql" THEN name ELSE Take(name, Len(name) - Len(".sql"))

\* line 402
TableNameOf(name) == Replace(Stem(name), "__", ".")

\* lines 405-415: the comment lines at the top of the file
RECURSIVE LeadingComments(_)
LeadingComments(ls) ==
    IF ls = <<>> \/ ~StartsWith(Strip(Head(ls)), "--") THEN <<>>
    ELSE <<Head(ls)>> \o LeadingComments(Tail(ls))

\* lines 430-435: what is written to the output file
RECURSIVE HeaderText(_)
HeaderText(header_lines) ==
    IF header_lines = <<>> THEN ""
    ELSE Head(header_lines) \o "\n" \o HeaderText(Tail(header_lines))

OutputText(content, converted_content) ==
    HeaderText(LeadingComments(SplitLines(content))) \o "\n" \o converted_content

\* str(input_file), the file being in the directory stage 1 wrote
TablePath(name) == TableDir \o "/" \o name

\* main, line 456 (default of --out): the directory of the converted files
ConvertedDir == "data/output/new_snowflake_table_creation"

\* main, line 458 (default of --issues): the issues file
IssuesPath == "data/output/issues.txt"

\* str(e) of the OSError of a failed write (lines 439-441): open names the file
\* it was refused, as repr() writes it; write and close name no file
WriteErrorText(fault, path) ==
    IF fault.written < 0 THEN fault.error \o ": " \o Repr(path)
    ELSE fault.error

\* the characters of an issues file of these lines
RECURSIVE IssuesSize(_)
IssuesSize(file_lines) ==
    IF file_lines = <<>> THEN 0
    ELSE Len(Head(file_lines)) + 1 + IssuesSize(Tail(file_lines))

\* A fault of the issues file, which is appended to: open is refused
\* (written < 0), or the file cannot grow beyond fault.written characters.
\* The characters a further line may still take:
IssuesRoom(file_lines, fault) ==
    IF fault.written < IssuesSize(file_lines) THEN 0
    ELSE fault.written - IssuesSize(file_lines)

\* log_issue, lines 54-55, on an issues file of these lines: the file
\* afterwards and whether the call raised.  A line that does not fit is cut
\* where the file is full (a cut line has no line end) and the call raises.
AppendIssue(file_lines, line, bad) ==
    IF IssuesPath \notin DOMAIN bad
    THEN [issues |-> Append(file_lines, line), raised |-> FALSE]
    ELSE IF Len(line) + 1 <= IssuesRoom(file_lines, bad[IssuesPath])
    THEN [issues |-> Append(file_lines, line), raised |-> FALSE]
    ELSE IF IssuesRoom(file_lines, bad[IssuesPath]) = 0
    THEN [issues |-> file_lines, raised |-> TRUE]
    ELSE IF Len(line) <= IssuesRoom(file_lines, bad[IssuesPath])
    THEN [issues |-> Append(file_lines, line), raised |-> TRUE]
    ELSE [issues |-> Append(file_lines, Take(line, IssuesRoom(file_lines, bad[IssuesPath]))),
          raised |-> TRUE]

\* the log_issue calls of a conversion, one after the other, up to the first
\* that raises
RECURSIVE AppendIssues(_, _, _)
AppendIssues(file_lines, new_lines, bad) ==
    IF new_lines = <<>> THEN [issues |-> file_lines, raised |-> FALSE]
    ELSE IF AppendIssue(file_lines, Head(new_lines), bad).raised
    THEN AppendIssue(file_lines, Head(new_lines), bad)
    ELSE AppendIssues(AppendIssue(file_lines, Head(new_lines), bad).issues,
                      Tail(new_lines), bad)

\* what process_table_file leaves behind: the value returned (ok), whether an
\* exception left the function instead (raised), the output directory and the
\* issues file afterwards, and what was logged at error level
TableResult(ok, dir, appended, log) ==
    [ok |-> ok /\ ~appended.raised, raised |-> appended.raised, outputs |-> dir,
     issues |-> appended.issues, log |-> log]

\* lines 396-399, 420-423 and 439-442: an except clause logs the error, calls
\* log_issue and returns False; when log_issue raises, the exception leaves
\* process_table_file
HandleError(file, dir, file_lines, bad, table, section, text, what) ==
    TableResult(FALSE, dir,
                AppendIssue(file_lines, log_issue(table, section, text, TablePath(file.name)),
                            bad),
                <<<<"error", what, file.name>>>>)

\* lines 426-442, given the converted content and the issues file after the
\* conversion
WriteConverted(file, dir, bad, converted_content, file_lines) ==
    IF file.name \in DOMAIN bad
    THEN HandleError(file,
                     FailedWrite(dir, file.name, OutputText(file.content, converted_content),
                                 bad[file.name]),
                     file_lines, bad, TableNameOf(file.name), "file_write",
                     WriteErrorText(bad[file.name], ConvertedDir \o "/" \o file.name),
                     "Error writing")
    ELSE [ok |-> TRUE, raised |-> FALSE,
          outputs |-> PutFile(dir, file.name, OutputText(file.content, converted_content)),
          issues |-> file_lines, log |-> <<>>]

\* the issue lines a conversion appends: all of them, or, when the environment
\* raises an exception inside the conversion (file.raises), those appended
\* before it was raised (file.logged of them, as far as there are that many)
LinesLogged(file, conv_log) ==
    IF file.raises /\ file.logged < Len(conv_log) THEN Take(conv_log, file.logged)
    ELSE conv_log

\* lines 417-442, given what convert_db2_to_snowflake returns and logs on a
\* faultless issues file: its log_issue calls are made on the issues file as it
\* is; one that raises, or the exception of the environment, ends the
\* conversion in the except clause of line 420
Converted(file, dir, bad, file_lines, conv) ==
    IF AppendIssues(file_lines, LinesLogged(file, conv.log), bad).raised
    THEN HandleError(file, dir,
                     AppendIssues(file_lines, LinesLogged(file, conv.log), bad).issues,
                     bad, TableNameOf(file.name), "conversion_error",
                     WriteErrorText(bad[IssuesPath], IssuesPath), "Error converting")
    ELSE IF file.raises
    THEN HandleError(file, dir,
                     AppendIssues(file_lines, LinesLogged(file, conv.log), bad).issues,
                     bad, TableNameOf(file.name), "conversion_error", file.error,
                     "Error converting")
    ELSE WriteConverted(file, dir, bad, conv.ret,
                        AppendIssues(file_lines, conv.log, bad).issues)

\* process_table_file on an input file [name, content, readable, raises, error,
\* logged], the output directory and the issues file as they are, and the files
\* whose write fails.  file.error is str(e) of the exception the environment
\* raises on the file: by open or read when the file is not readable, inside
\* the conversion when file.raises.
process_table_file(file, dir, bad, file_lines) ==
    IF ~file.readable
    THEN HandleError(file, dir, file_lines, bad, "parse_error", "file_read", file.error,
                     "Error reading")
    ELSE CHOOSE r \in {Converted(read, dir, bad, file_lines, conv) :
                          read \in {[file EXCEPT !.content = ReadText(@)]},
                          conv \in {convert_db2_to_snowflake(ReadText(file.content),
                                                             TableNameOf(file.name))}} : TRUE

\* main, lines 477-487: the table file of the self-test
SelfTestTableContent ==
    "-- Source file: data/input/sample.sql\n-- Extracted: 2025-10-20T00:00:00Z\n\n"
    \o SelfTestContent

(***************************************************************************)
(* Components at rest: every specification below runs one component and    *)
(* leaves the others as they are here.                                     *)
(***************************************************************************)
IdleStrip == strip_in = "" /\ strip_out = <<>>

IdleSeg ==
    /\ lines = <<>> /\ idx = 0 /\ current_statement = <<>> /\ paren_count = 0
    /\ in_create_table = FALSE /\ statements = <<>> /\ seg_pc = "done"

IdleRules == issues = <<>> /\ calls = <<>>

IdleConv ==
    /\ statement = "" /\ table_name = "" /\ primary_keys = <<"?">>
    /\ converted = "?" /\ conv_issues = <<>> /\ conv_pc = "done"

NoFiles == [n \in {} |-> ""]

\* no write fails
NoFaults == [n \in {} |-> [written |-> -1, error |-> ""]]

\* no call of process_input_file or process_table_file yet
NoResult == <<>>

IdleBatch ==
    /\ stage = "" /\ selftest = FALSE /\ input_dir_exists = FALSE /\ sql_files = <<>>
    /\ unwritable = NoFaults
    /\ file_idx = 0 /\ manifest_data = <<>> /\ tables_found = 0
    /\ converted_count = 0 /\ outputs = NoFiles /\ manifest_file = NoFiles
    /\ result = NoResult /\ batch_log = <<>>
    /\ exit_code = -1 /\ batch_pc = "done"

IdleAll == IdleStrip /\ IdleSeg /\ IdleRules /\ IdleConv /\ IdleBatch

(***************************************************************************)
(* Spec: the rule engine and the column parser, called on inputs drawn     *)
(* from the sets below; the issues file accumulates what the calls log.    *)
(***************************************************************************)
TypeInputs ==
    {"DECIMAL(18,2)", "NUMERIC(9)", "SMALLINT", "INTEGER", "BIGINT", "REAL",
     "DOUBLE", "DECFLOAT", "CHAR(3)", "VARCHAR(100) FOR SBCS DATA",
     "CHAR(16) FOR BIT DATA", "GRAPHIC(10)", "VARGRAPHIC(10)", "GRAPHIC",
     "vargraphic(5)", "CLOB(1M)", "CLOB(1M) FOR SBCS DATA", "BLOB(1M)", "XML",
     "DATE", "TIME", "TIMESTAMP WITH TIME ZONE", "TIMESTAMP", "DBCLOB(1K)",
     " integer ", ""}

DefaultInputs ==
    {"", "WITH DEFAULT", "with default ", "WITH DEFAULT 0", "WITH  DEFAULT 0",
     "WITH DEFAULT ''", "WITH DEFAULT CURRENT TIMESTAMP", "WITH DEFAULT CURRENT DATE",
     "WITH DEFAULT current  time", "WITH DEFAULT USER", "with default user",
     "WITH DEFAULT SESSION_USER", "WITH DEFAULT 'USER_X'",
     "WITH DEFAULT CURRENT TIMEZONE", "CURRENT DATE"}

ColumnNames == {"ID", "IS_NULLABLE", "CHECK_NO"}

ColumnTypes == {"INTEGER", "DECIMAL(18,2)", "CLOB(1M)"}

ColumnAttrs ==
    {"", " NOT NULL", " WITH DEFAULT", " WITH DEFAULT,", " NOT NULL WITH DEFAULT",
     " WITH DEFAULT 0", " NOT NULL WITH DEFAULT CURRENT TIMESTAMP",
     " NOT NULL WITH  DEFAULT 0", " WITH DEFAULT USER"}

ColumnInputs ==
    {n \o " " \o t \o a : n \in ColumnNames, t \in ColumnTypes, a \in ColumnAttrs}

Init ==
    /\ issues = <<>>
    /\ calls = <<>>
    /\ IdleStrip /\ IdleSeg /\ IdleConv /\ IdleBatch

\* a call's effect: its log lines are appended to the issues file
Called(fn, arg, type_arg, default_arg, r) ==
    /\ issues' = issues \o r.log
    /\ calls' = Append(calls, [fn |-> fn, arg |-> arg, type_arg |-> type_arg,
                               default_arg |-> default_arg,
                               ret |-> r.ret, log |-> r.log])
    /\ UNCHANGED <<stripVars, segVars, convVars, batchVars>>

ConvertDataType ==
    /\ Len(calls) < MaxCalls
    /\ \E t \in TypeInputs :
          Called("convert_data_type", t, t, "", convert_data_type(t, "APP.T", "C"))

ConvertDefaultValue ==
    /\ Len(calls) < MaxCalls
    /\ \E e \in DefaultInputs :
          Called("convert_default_value", e, "", e,
                 convert_default_value(e, "APP.T", "C"))

ParseColumnDefinition ==
    /\ Len(calls) < MaxCalls
    /\ \E c \in ColumnInputs :
          Called("parse_column_definition", c,
                 DataTypePart(Strip(c)), DefaultMatch(RemainingPart(Strip(c))),
                 parse_column_definition(c, "APP.T"))

Next == ConvertDataType \/ ConvertDefaultValue \/ ParseColumnDefinition

Spec == Init /\ [][Next]_vars

CallsOf(fn) == {i \in 1..Len(calls) : calls[i].fn = fn}

\* a column definition whose default is the bare keyword pair: WITH DEFAULT at
\* the end of the line or directly before the trailing comma
BarePlaceholder(column_def) ==
    LET cd   == Strip(column_def)
        body == RStrip(IF EndsWith(cd, ",") THEN Take(cd, Len(cd) - 1) ELSE cd)
    IN  EndsWith(Upper(body), " WITH DEFAULT")

AmbiguousDefaultLines(log) ==
    {j \in 1..Len(log) : Contains(log[j], " | ambiguous default removed | ")}

\* C1: a column with a bare placeholder default is converted without a DEFAULT
\* clause, and exactly one ambiguous-default diagnostic is logged for it.
C1_BareDefaultOneDiagnostic ==
    \A i \in CallsOf("parse_column_definition") :
        BarePlaceholder(calls[i].arg)
            => /\ ~Contains(calls[i].ret, "DEFAULT")
               /\ Cardinality(AmbiguousDefaultLines(calls[i].log)) = 1

LossyTypeRules == {"for_bit_data", "graphic", "clob", "xml"}

BareDefault(default_expr) == Upper(Strip(default_expr)) = "WITH DEFAULT"

\* the expression convert_default_value looks for USER in
UserRewrite(default_expr) ==
    /\ default_expr # ""
    /\ ~BareDefault(default_expr)
    /\ HasPhrase(ConvertCurrentFunctions(StripWithDefaultPrefix(Strip(default_expr))),
                 <<"USER">>)

\* C7: one call of convert_data_type logs exactly one line when the rule it
\* applies is lossy (FOR BIT DATA, (VAR)GRAPHIC, CLOB, XML) and none otherwise;
\* one call of convert_default_value logs exactly one line for a bare placeholder
\* or a USER rewrite and none otherwise; the issues file grows by exactly those
\* lines, and a value is returned in every case (a type for every non-empty
\* type, a DEFAULT clause for every default that is neither empty nor bare).
C7_OneDiagnosticPerLossyRule ==
    /\ \A i \in CallsOf("convert_data_type") :
          /\ Len(calls[i].log) =
                 (IF TypeRule(NormalizeType(calls[i].arg)) \in LossyTypeRules
                  THEN 1 ELSE 0)
          /\ NormalizeType(calls[i].arg) # "" => calls[i].ret # ""
    /\ \A i \in CallsOf("convert_default_value") :
          /\ Len(calls[i].log) =
                 (IF BareDefault(calls[i].arg) \/ UserRewrite(calls[i].arg)
                  THEN 1 ELSE 0)
          /\ (calls[i].arg # "" /\ ~BareDefault(calls[i].arg))
                 => StartsWith(calls[i].ret, "DEFAULT ")
    /\ (CallsOf("parse_column_definition") = {}
          => Len(issues) =
                 Cardinality({i \in 1..Len(calls) :
                     \/ /\ calls[i].fn = "convert_data_type"
                        /\ TypeRule(NormalizeType(calls[i].arg)) \in LossyTypeRules
                     \/ /\ calls[i].fn = "convert_default_value"
                        /\ (BareDefault(calls[i].arg) \/ UserRewrite(calls[i].arg))}))

\* C7 witness: a lossy type rule was applied and left exactly one line in the
\* issues file.
C7_Witness ==
    /\ Len(calls) = 1
    /\ calls[1].fn = "convert_data_type"
    /\ TypeRule(NormalizeType(calls[1].arg)) = "clob"
    /\ calls[1].ret = "VARCHAR"
    /\ Len(issues) = 1

\* C8: a type whose name starts with GRAPHIC or VARGRAPHIC is returned as
\* VARCHAR followed by the unchanged argument suffix.
C8_GraphicToVarchar ==
    \A i \in CallsOf("convert_data_type") :
        LET t    == NormalizeType(calls[i].arg)
            name == IF StartsWith(t, "VARGRAPHIC") THEN "VARGRAPHIC" ELSE "GRAPHIC"
        IN  (StartsWith(t, "GRAPHIC") \/ StartsWith(t, "VARGRAPHIC"))
                => calls[i].ret = "VARCHAR" \o Drop(t, Len(name))

\* the text between the end of the column name and the leftmost boundary keyword
\* that occurs after the name (to the end of the line if there is none)
TypeSpanAfterName(cd) ==
    LET name == FirstToken(cd)
        ps   == {FindFrom(Upper(cd), k, Len(name) + 1) : k \in type_end_keywords} \ {0}
        end  == IF ps = {} THEN Len(cd) + 1 ELSE Min(ps)
    IN  Strip(SubSeq(cd, Len(name) + 1, end - 1))

\* C9: the type converter is handed exactly the text between the end of the
\* column name and the leftmost boundary keyword after the name, for every
\* column name, also one that contains a boundary keyword.
C9_TypeSpanAfterName ==
    \A i \in CallsOf("parse_column_definition") :
        calls[i].type_arg = TypeSpanAfterName(Strip(calls[i].arg))

\* the expression with the introducer, as the column parser matches it
\* (WITH\s+DEFAULT\s+), removed
WithoutIntroducer(e) ==
    LET u == Upper(e)
        b == AfterRun(u, AfterLit(u, AfterRun(u, AfterLit(u, 1, "WITH"), "s"),
                                  "DEFAULT"), "s")
    IN  IF b = 0 THEN e ELSE Drop(e, b - 1)

\* C10: for a default expression that is neither empty nor a bare placeholder
\* the result is DEFAULT, a space, and the expression without its WITH DEFAULT
\* introducer, with the CURRENT TIMESTAMP / DATE / TIME phrases and the
\* whole-word USER tokens rewritten and everything else unchanged.
C10_DefaultClauseText ==
    \A i \in CallsOf("convert_default_value") :
        (calls[i].arg # "" /\ ~BareDefault(calls[i].arg))
            => calls[i].ret =
                   "DEFAULT " \o SubPhrase(ConvertCurrentFunctions(
                                               WithoutIntroducer(Strip(calls[i].arg))),
                                           <<"USER">>, "CURRENT_USER")

(***************************************************************************)
(* SpecLog: log_issue called on an issues file that main has emptied       *)
(* (lines 530-533); every call appends one line.                           *)
(***************************************************************************)
LongSnippet ==
    "CUSTOMER_NAME VARCHAR(200) FOR SBCS DATA NOT NULL WITH DEFAULT "
    \o "'a default text that runs on well past the eightieth character'"

\* snippet lengths around the limit
SnippetLengths == {0, 13, 79, 80, 81, Len(LongSnippet)}

LogSnippets == {Take(LongSnippet, n) : n \in SnippetLengths}

LogTables == {"APP.T", "parse_error"}

LogSections == {"CUSTOMER_NAME", "file_read"}

LogTexts == {"CLOB converted to VARCHAR - verify size limits"}

InitLog ==
    /\ issues = <<>>
    /\ calls = <<>>
    /\ IdleStrip /\ IdleSeg /\ IdleConv /\ IdleBatch

LogIssue ==
    /\ Len(calls) < MaxLogCalls
    /\ \E t \in LogTables, c \in LogSections, i \in LogTexts, sn \in LogSnippets :
          /\ issues' = Append(issues, log_issue(t, c, i, sn))
          /\ calls' = Append(calls, [fn |-> "log_issue", table_name |-> t,
                                     column_section |-> c, issue |-> i,
                                     snippet |-> sn])
    /\ UNCHANGED <<stripVars, segVars, convVars, batchVars>>

NextLog == LogIssue

SpecLog == InitLog /\ [][NextLog]_vars

\* the snippet field of a line: what follows the third " | "
SnippetField(line, call) ==
    Drop(line, Len(call.table_name) + Len(call.column_section) + Len(call.issue) + 9)

\* the first min(80, length) characters of a snippet
FirstEighty(sn) == SubSeq(sn, 1, IF Len(sn) < 80 THEN Len(sn) ELSE 80)

\* C15: the issues file holds one line per log_issue call, in call order; a call
\* leaves the earlier lines as they were; the snippet field of a line is the
\* first min(80, length) characters of the snippet passed, never more than 80.
C15_AppendOnlyTruncated ==
    /\ [](/\ Len(issues) = Len(calls)
          /\ \A n \in 1..Len(calls) :
                /\ StartsWith(issues[n],
                              calls[n].table_name \o " | " \o calls[n].column_section
                                  \o " | " \o calls[n].issue \o " | ")
                /\ SnippetField(issues[n], calls[n]) = FirstEighty(calls[n].snippet)
                /\ Len(SnippetField(issues[n], calls[n])) <= 80)
    /\ [][/\ Len(issues') = Len(issues) + 1
          /\ SubSeq(issues', 1, Len(issues)) = issues]_vars

\* C15 witness: two calls with the same arguments and a snippet longer than the
\* limit have written two lines.
C15_Witness ==
    /\ Len(calls) = 2
    /\ calls[1] = calls[2]
    /\ Len(calls[1].snippet) > 80
    /\ Len(issues) = 2
    /\ issues[1] = issues[2]

(***************************************************************************)
(* SpecConvert: convert_db2_to_snowflake on one table file's statement:    *)
(* the keys are extracted first (line 308), then the statement is          *)
(* rewritten and the ALTER TABLE line appended (lines 310-372).            *)
(***************************************************************************)
\* opening line, and the table name process_table_file derives for it
ConvOpeners == {<<"CREATE TABLE APP.T (", "APP.T">>, <<"CREATE TABLE T (", "DEFAULT.T">>}

ConvColumnLines ==
    {"A INTEGER NOT NULL", "B CHAR(3) WITH DEFAULT", "ID INTEGER NOT NULL PRIMARY KEY",
     "AMT DECIMAL(18,2) NOT NULL PRIMARY KEY", "ID INTEGER WITH DEFAULT 0 PRIMARY KEY"}

\* table-level key clauses ("" for none)
ConvKeyClauses == {"", "PRIMARY KEY (A, B)", "CONSTRAINT PK_T PRIMARY KEY (A , B)"}

ConvBodies == UNION {[1..n -> ConvColumnLines] : n \in 1..MaxBody}

StatementText(opener, body, clause) ==
    opener \o "\n  "
           \o Join(body \o (IF clause = "" THEN <<>> ELSE <<clause>>), ",\n  ")
           \o "\n);"

InitConvert ==
    /\ \E o \in ConvOpeners, b \in ConvBodies, k \in ConvKeyClauses :
          /\ statement = StatementText(o[1], b, k)
          /\ table_name = o[2]
    /\ primary_keys = <<"?">>
    /\ converted = "?"
    /\ conv_issues = <<>>
    /\ conv_pc = "start"
    /\ IdleStrip /\ IdleSeg /\ IdleRules /\ IdleBatch

ExtractPrimaryKeys ==
    /\ conv_pc = "start"
    /\ primary_keys' = extract_primary_keys(statement)
    /\ conv_pc' = "keys"
    /\ UNCHANGED <<statement, table_name, converted, conv_issues,
                   stripVars, segVars, ruleVars, batchVars>>

RewriteStatement ==
    /\ conv_pc = "keys"
    /\ LET r == RewriteWithKeys(statement, table_name, primary_keys)
       IN  converted' = r.ret /\ conv_issues' = r.log
    /\ conv_pc' = "done"
    /\ UNCHANGED <<statement, table_name, primary_keys, stripVars, segVars, ruleVars, batchVars>>

NextConvert == ExtractPrimaryKeys \/ RewriteStatement

SpecConvert == InitConvert /\ [][NextConvert]_vars

\* The statement as written: its body lines (between the opening line and the
\* closing line), which of them are table-level key clauses, and which are
\* column lines that carry an inline PRIMARY KEY marker.
BodyLines(stmt) ==
    LET ls == SplitLines(stmt)
    IN  [i \in 1..(Len(ls) - 2) |->
            LET l == Strip(ls[i + 1])
            IN  IF EndsWith(l, ",") THEN Take(l, Len(l) - 1) ELSE l]

IsKeyClause(line) ==
    StartsWith(Upper(line), "PRIMARY KEY") \/ StartsWith(Upper(line), "CONSTRAINT")

KeyClauseLines(stmt) ==
    {i \in 1..Len(BodyLines(stmt)) : IsKeyClause(BodyLines(stmt)[i])}

InlineKeyLines(stmt) ==
    {i \in 1..Len(BodyLines(stmt)) :
        /\ ~IsKeyClause(BodyLines(stmt)[i])
        /\ Contains(Upper(BodyLines(stmt)[i]), " PRIMARY KEY")}

\* the names c1, ..., cn of a clause PRIMARY KEY (c1, ..., cn), trimmed
ClauseColumns(line) ==
    LET cols == SplitComma(SubSeq(line, Find(line, "(") + 1, Find(line, ")") - 1))
    IN  [n \in 1..Len(cols) |-> Strip(cols[n])]

\* C4: with both an inline marker and a table-level clause in the statement,
\* the extracted key is the one column that carries the inline marker.
C4_InlineKeyWins ==
    (conv_pc # "start" /\ InlineKeyLines(statement) # {}
                       /\ KeyClauseLines(statement) # {})
        => primary_keys =
               <<FirstToken(BodyLines(statement)[Min(InlineKeyLines(statement))])>>

\* C5: with a table-level clause only (plain or introduced by CONSTRAINT <name>)
\* the extracted key is the clause's column list, trimmed, in the written order.
C5_TableLevelKeyList ==
    (conv_pc # "start" /\ InlineKeyLines(statement) = {}
                       /\ KeyClauseLines(statement) # {})
        => primary_keys =
               ClauseColumns(BodyLines(statement)[Min(KeyClauseLines(statement))])

\* C6: in the output the words PRIMARY KEY occur only in the trailing ALTER TABLE
\* line: no line of the rewritten CREATE TABLE holds them; the output ends with
\* exactly one ALTER TABLE ... ADD PRIMARY KEY line, after the CREATE TABLE, when
\* keys were extracted, and holds no ALTER TABLE line when none were.
C6_KeysOnlyInAlterTable ==
    conv_pc = "done" =>
        LET out    == SplitLines(converted)
            alters == {i \in 1..Len(out) : StartsWith(out[i], "ALTER TABLE ")}
        IN  /\ \A i \in 1..Len(out) :
                  i \notin alters => ~Contains(Upper(out[i]), "PRIMARY KEY")
            /\ IF primary_keys # <<>>
               THEN /\ alters = {Len(out)}
                    /\ Contains(out[Len(out)], " ADD PRIMARY KEY (")
                    /\ \E c \in 1..(Len(out) - 1) : StartsWith(out[c], "CREATE TABLE ")
               ELSE alters = {}

(***************************************************************************)
(* SpecColumns: convert_db2_to_snowflake on statements whose columns have  *)
(* names that begin with or contain a keyword the rewriter looks for, and  *)
(* whose closing parenthesis stands on its own line or ends the last line. *)
(***************************************************************************)
ColumnsOpener == <<"CREATE TABLE APP.T (", "APP.T">>

NamedColumnLines ==
    {"ID INTEGER NOT NULL", "NAME VARCHAR(20)", "AUDIT_TS TIMESTAMP",
     "CHECKSUM CHAR(8)", "UNIQUE_ID INTEGER"}

NamedBodies == UNION {[1..n -> NamedColumnLines] : n \in 1..MaxBody}

NamedKeyClauses == {"", "PRIMARY KEY (ID)"}

\* how the column list ends: the closing on a line of its own, or at the end
\* of the last line of the list
Closings == {"\n)", "\n);", ")", ");"}

ColumnsText(opener, body, clause, closing) ==
    opener \o "\n  "
           \o Join(body \o (IF clause = "" THEN <<>> ELSE <<clause>>), ",\n  ")
           \o closing

InitColumns ==
    /\ \E b \in NamedBodies, k \in NamedKeyClauses, c \in Closings :
          /\ statement = ColumnsText(ColumnsOpener[1], b, k, c)
          /\ table_name = ColumnsOpener[2]
    /\ primary_keys = <<"?">>
    /\ converted = "?"
    /\ conv_issues = <<>>
    /\ conv_pc = "start"
    /\ IdleStrip /\ IdleSeg /\ IdleRules /\ IdleBatch

SpecColumns == InitColumns /\ [][NextConvert]_vars

\* a table-level clause: one of the four words, followed by a blank or '('
IsConstraintClause(line) ==
    \E k \in {"CONSTRAINT", "PRIMARY KEY", "UNIQUE", "CHECK"} :
        /\ StartsWith(Upper(line), k)
        /\ Len(line) > Len(k)
        /\ At(line, Len(k) + 1) \in {" ", "("}

\* the names of the columns a statement defines, in the written order: the
\* first word of every body line that is neither a closing line nor a clause
DefinedColumns(stmt) ==
    LET ls == SplitLines(stmt)
        RECURSIVE From(_)
        From(i) ==
            IF i > Len(ls) THEN <<>>
            ELSE (IF Strip(ls[i]) \in {")", ");"} \/ IsConstraintClause(Strip(ls[i]))
                  THEN <<>> ELSE <<FirstToken(Strip(ls[i]))>>)
                 \o From(i + 1)
    IN  From(2)

\* the lines of the rewritten CREATE TABLE: the output without an ALTER TABLE line
CreateTableLines(out) ==
    LET ls == SplitLines(out)
    IN  IF StartsWith(ls[Len(ls)], "ALTER TABLE ") THEN SubSeq(ls, 1, Len(ls) - 1)
        ELSE ls

\* C19: every column the statement defines yields one column line of the
\* rewritten CREATE TABLE, with the same name, in the same order, and the
\* rewritten statement ends with ");" -- whatever the column is called and
\* wherever the closing parenthesis stands.
C19_EveryColumnKept ==
    conv_pc = "done" =>
        LET cols == DefinedColumns(statement)
            out  == CreateTableLines(converted)
        IN  /\ Len(out) = Len(cols) + 2
            /\ out[Len(out)] = ");"
            /\ \A i \in 1..Len(cols) : FirstToken(Strip(out[i + 1])) = cols[i]

(***************************************************************************)
(* SpecBatch: main of either script over the input files it finds.  The    *)
(* environment decides which files can be read, which output files can be  *)
(* written, how a write fails, in which file the conversion raises, and    *)
(* what the exceptions say.                                                *)
(***************************************************************************)
InputFile(name, content, readable, raises, error, logged) ==
    [name |-> name, content |-> content, readable |-> readable, raises |-> raises,
     error |-> error, logged |-> logged]

\* a file that is read and converted without an exception
GoodFile(name, content) == InputFile(name, content, TRUE, FALSE, "", 0)

\* the column line of a.sql ends in a vertical tab (0x0B), written raw
WidgetsFile ==
    GoodFile("a.sql", "CREATE TABLE WIDGETS (\n  ID INTEGER NOT NULL PRIMARY KEY\n);")

NoTablesFile == GoodFile("b.sql", "-- nothing here\nDROP TABLE X;")

\* c.txt has line ends of all three kinds
TwoTablesFile ==
    GoodFile("c.txt",
             "CREATE TABLE APP.MY__T (\r\n  A INT,\r  PRIMARY KEY (A)\r\n);\r\n"
             \o "create table APP.U (\n  B CLOB(1M)\r);")

LockedFile ==
    InputFile("d.sql", "", FALSE, FALSE,
              "[Errno 13] Permission denied: 'data/input/d.sql'", 0)

LiteralFile ==
    GoodFile("e.sql",
             "CREATE TABLE NOTES (\n  NOTE VARCHAR(40) DEFAULT 'CREATE TABLE X.Y'\n);")

SplitPool == {WidgetsFile, NoTablesFile, TwoTablesFile, LockedFile, LiteralFile}

\* the table files stage 1 writes for a.sql and c.txt
StageOneFiles ==
    process_input_file(TwoTablesFile,
                       process_input_file(WidgetsFile, NoFiles, <<>>,
                                          SourceFilePath("a.sql"), NoFaults).outputs,
                       <<>>, SourceFilePath("c.txt"), NoFaults).outputs

\* the same files as stage 2 finds them, one of them stored with "\r\n" line
\* ends, one of them also as a file that may
\* not be read and as one on which the conversion raises, before it logged
\* anything or after it logged its one line
ConvertPool ==
    {GoodFile(n, IF n = "APP__MY__T.sql" THEN Replace(StageOneFiles[n], "\n", "\r\n")
                 ELSE StageOneFiles[n]) : n \in DOMAIN StageOneFiles}
    \cup {InputFile("APP__U.sql", "", FALSE, FALSE,
                    "[Errno 13] Permission denied: " \o Repr(TablePath("APP__U.sql")), 0),
          InputFile("APP__U.sql", StageOneFiles["APP__U.sql"], TRUE, TRUE,
                    "maximum recursion depth exceeded while calling a Python object", 0),
          InputFile("APP__U.sql", StageOneFiles["APP__U.sql"], TRUE, TRUE,
                    "maximum recursion depth exceeded", 1)}

\* the files of a directory in glob order: no name twice
FileLists(pool) ==
    {q \in UNION {[1..n -> pool] : n \in 0..MaxFiles} :
        \A i, j \in 1..Len(q) : q[i].name = q[j].name => i = j}

\* the directories a self-test is started in: empty or with one file
SelfTestLists(file) == {<<>>, <<file>>}

\* how a write fails: open refused; the disk full, nothing of the text stored;
\* the file size limit reached after 60 characters
OpenRefused == [written |-> -1, error |-> "[Errno 13] Permission denied"]

DiskFull == [written |-> 0, error |-> "[Errno 28] No space left on device"]

FileTooLarge == [written |-> 60, error |-> "[Errno 27] File too large"]

\* the files of a set of names failing in one way
FaultsOf(names, fault) == [n \in names |-> fault]

\* main, line 265: the file the self-test of stage 1 writes and reads
SamplePath == "data/input/sample.sql"

\* main, line 489: the file the self-test of stage 2 writes and reads
SelfTestTablePath == TablePath("APP__ACCOUNT.sql")

\* the write faults of a run of stage 1: of table files, of the manifest, of
\* both (the disk of data/output full), of the self-test's input file
SplitFaults ==
    {NoFaults,
     FaultsOf({"APP__U.sql"}, OpenRefused),
     FaultsOf({"DEFAULT__WIDGETS.sql"}, FileTooLarge),
     FaultsOf({"DEFAULT__WIDGETS.sql", "APP__MY__T.sql", "APP__U.sql", "X__Y.sql",
               "APP__ACCOUNT.sql"}, DiskFull),
     FaultsOf({ManifestPath}, OpenRefused),
     FaultsOf({ManifestPath}, FileTooLarge),
     FaultsOf({"APP__U.sql", ManifestPath}, DiskFull),
     FaultsOf({SamplePath}, FileTooLarge)}

\* the write faults of a run of stage 2: of converted files, of the issues
\* file, of both (one file size limit for the process), of the self-test's
\* input file
ConvertFaults ==
    {NoFaults,
     FaultsOf({"APP__U.sql"}, OpenRefused),
     FaultsOf({"DEFAULT__WIDGETS.sql"}, FileTooLarge),
     FaultsOf({"DEFAULT__WIDGETS.sql", "APP__MY__T.sql", "APP__U.sql",
               "APP__ACCOUNT.sql"}, DiskFull),
     FaultsOf({IssuesPath}, OpenRefused),
     FaultsOf({IssuesPath}, FileTooLarge),
     FaultsOf({"DEFAULT__WIDGETS.sql", IssuesPath}, FileTooLarge),
     FaultsOf({SelfTestTablePath}, FileTooLarge)}

InitBatch ==
    /\ stage \in {"split", "convert"}
    /\ selftest \in BOOLEAN
    /\ input_dir_exists \in BOOLEAN
    /\ sql_files \in (IF ~input_dir_exists THEN {<<>>}
                      ELSE IF selftest
                      THEN SelfTestLists(IF stage = "split" THEN NoTablesFile
                                         ELSE GoodFile("APP__U.sql",
                                                       StageOneFiles["APP__U.sql"]))
                      ELSE FileLists(IF stage = "split" THEN SplitPool ELSE ConvertPool))
    /\ unwritable \in (IF sql_files = <<>> /\ ~selftest THEN {NoFaults}
                       ELSE IF stage = "split" THEN SplitFaults ELSE ConvertFaults)
    /\ file_idx = 0
    /\ manifest_data = <<>>
    /\ tables_found = 0
    /\ converted_count = 0
    /\ outputs = NoFiles
    /\ manifest_file = NoFiles
    /\ result = NoResult
    /\ batch_log = <<>>
    /\ exit_code = -1
    /\ batch_pc = "start"
    /\ IdleStrip /\ IdleSeg /\ IdleRules /\ IdleConv

\* a directory listing with the file of this name taken out (unlink)
WithoutFile(files, name) == SelectSeq(files, LAMBDA f : f.name # name)

\* a directory listing after a file was written into the directory: in the
\* place of the file of that name, or behind the others
WithFile(files, file) ==
    IF \E i \in 1..Len(files) : files[i].name = file.name
    THEN [i \in 1..Len(files) |-> IF files[i].name = file.name THEN file ELSE files[i]]
    ELSE Append(files, file)

\* a directory listing after the write of a file into it failed: as it was
\* when open was refused, else with what was written of the file
AfterFailedInput(files, name, text, fault) ==
    IF fault.written < 0 THEN files
    ELSE WithFile(files, GoodFile(name, IF fault.written < Len(text)
                                        THEN Take(text, fault.written) ELSE text))

\* 01 main, lines 249-265 with the write of sample.sql raising: the exception
\* leaves main
SplitSelfTestNoSample ==
    /\ stage = "split" /\ batch_pc = "start" /\ selftest
    /\ SamplePath \in DOMAIN unwritable
    /\ input_dir_exists' = TRUE
    /\ sql_files' = AfterFailedInput(sql_files, "sample.sql", SelfTestContent,
                                     unwritable[SamplePath])
    /\ batch_pc' = "raised"
    /\ UNCHANGED <<stage, selftest, unwritable, file_idx, manifest_data, tables_found,
                   converted_count, outputs, manifest_file, result, batch_log, exit_code,
                   stripVars, segVars, ruleVars, convVars>>

\* 01 main, lines 249-284: sample.sql written and processed, the manifest
\* written, sample.sql removed, 0 returned; when the write of the manifest
\* raises, the exception leaves main and sample.sql stays
SplitSelfTest ==
    /\ stage = "split" /\ batch_pc = "start" /\ selftest
    /\ SamplePath \notin DOMAIN unwritable
    /\ input_dir_exists' = TRUE
    /\ result' = process_input_file(GoodFile("sample.sql", SelfTestContent), outputs, <<>>,
                                    SamplePath, unwritable)
    /\ outputs' = result'.outputs
    /\ manifest_data' = result'.manifest_data
    /\ batch_log' = batch_log \o result'.log
    /\ IF ManifestPath \in DOMAIN unwritable
       THEN /\ manifest_file' = FailedWrite(manifest_file, ManifestPath,
                                            ManifestJson(manifest_data'),
                                            unwritable[ManifestPath])
            /\ sql_files' = WithFile(sql_files, GoodFile("sample.sql", SelfTestContent))
            /\ exit_code' = exit_code
            /\ batch_pc' = "raised"
       ELSE /\ manifest_file' = PutFile(manifest_file, ManifestPath,
                                        ManifestJson(manifest_data'))
            /\ sql_files' = WithoutFile(sql_files, "sample.sql")
            /\ exit_code' = 0
            /\ batch_pc' = "done"
    /\ UNCHANGED <<stage, selftest, unwritable, file_idx, tables_found, converted_count,
                   stripVars, segVars, ruleVars, convVars>>

\* 01 main, lines 286-306: return 2 without input, else enter the loop
SplitMainStart ==
    /\ stage = "split" /\ batch_pc = "start" /\ ~selftest
    /\ IF ~input_dir_exists \/ sql_files = <<>>
       THEN /\ exit_code' = 2
            /\ batch_pc' = "done"
            /\ batch_log' = Append(batch_log, <<"error", "No input", "data/input">>)
       ELSE /\ exit_code' = exit_code
            /\ batch_pc' = "loop"
            /\ batch_log' = batch_log
    /\ UNCHANGED <<stage, selftest, input_dir_exists, sql_files, unwritable, file_idx,
                   manifest_data, tables_found, converted_count, outputs, manifest_file,
                   result, stripVars, segVars, ruleVars, convVars>>

\* 01 main, line 311: the manifest entries that name the file as their source
EntriesFrom(manifest, source_file_path) ==
    Cardinality({i \in 1..Len(manifest) : manifest[i].source_file = source_file_path})

\* one iteration of the loop of lines 308-311
SplitProcessFile ==
    /\ stage = "split" /\ batch_pc = "loop" /\ file_idx < Len(sql_files)
    /\ result' = process_input_file(sql_files[file_idx + 1], outputs, manifest_data,
                                    SourceFilePath(sql_files[file_idx + 1].name),
                                    unwritable)
    /\ outputs' = result'.outputs
    /\ manifest_data' = result'.manifest_data
    /\ batch_log' = batch_log \o result'.log
    /\ tables_found' = tables_found
                        + EntriesFrom(manifest_data',
                                      SourceFilePath(sql_files[file_idx + 1].name))
    /\ file_idx' = file_idx + 1
    /\ UNCHANGED <<stage, selftest, input_dir_exists, sql_files, unwritable,
                   converted_count, manifest_file, exit_code, batch_pc,
                   stripVars, segVars, ruleVars, convVars>>

\* 01 main, lines 314-325 and 02 main, lines 543-548: the value returned
ExitCodeFor(succeeded) == IF succeeded = 0 THEN 3 ELSE 0

\* 01 main, lines 314-316: nothing extracted, 3 returned, no manifest written
SplitMainFinishEmpty ==
    /\ stage = "split" /\ batch_pc = "loop" /\ file_idx = Len(sql_files)
    /\ tables_found = 0
    /\ exit_code' = ExitCodeFor(tables_found)
    /\ batch_log' = Append(batch_log, <<"error", "No CREATE TABLE statements found",
                                        "data/input">>)
    /\ batch_pc' = "done"
    /\ UNCHANGED <<stage, selftest, input_dir_exists, sql_files, unwritable, file_idx,
                   manifest_data, tables_found, converted_count, outputs, manifest_file,
                   result, stripVars, segVars, ruleVars, convVars>>

\* 01 main, lines 318-325: the manifest written and 0 returned; when the write
\* raises, the exception leaves main
SplitMainFinish ==
    /\ stage = "split" /\ batch_pc = "loop" /\ file_idx = Len(sql_files)
    /\ tables_found # 0
    /\ IF ManifestPath \in DOMAIN unwritable
       THEN /\ manifest_file' = FailedWrite(manifest_file, ManifestPath,
                                            ManifestJson(manifest_data),
                                            unwritable[ManifestPath])
            /\ exit_code' = exit_code
            /\ batch_pc' = "raised"
       ELSE /\ manifest_file' = PutFile(manifest_file, ManifestPath,
                                        ManifestJson(manifest_data))
            /\ exit_code' = ExitCodeFor(tables_found)
            /\ batch_pc' = "done"
    /\ UNCHANGED <<stage, selftest, input_dir_exists, sql_files, unwritable, file_idx,
                   manifest_data, tables_found, converted_count, outputs, result,
                   batch_log, stripVars, segVars, ruleVars, convVars>>

\* 02 main, lines 469-495 with the write of the test file raising: the
\* exception leaves main
ConvertSelfTestNoTable ==
    /\ stage = "convert" /\ batch_pc = "start" /\ selftest
    /\ SelfTestTablePath \in DOMAIN unwritable
    /\ input_dir_exists' = TRUE
    /\ sql_files' = AfterFailedInput(sql_files, "APP__ACCOUNT.sql", SelfTestTableContent,
                                     unwritable[SelfTestTablePath])
    /\ batch_pc' = "raised"
    /\ UNCHANGED <<stage, selftest, unwritable, file_idx, manifest_data, tables_found,
                   converted_count, outputs, manifest_file, result, batch_log, exit_code,
                   stripVars, segVars, ruleVars, convVars>>

\* 02 main, lines 469-503 with the open that empties the issues file refused:
\* the exception leaves main and the test file stays
ConvertSelfTestNoIssues ==
    /\ stage = "convert" /\ batch_pc = "start" /\ selftest
    /\ SelfTestTablePath \notin DOMAIN unwritable
    /\ IssuesPath \in DOMAIN unwritable /\ unwritable[IssuesPath].written < 0
    /\ input_dir_exists' = TRUE
    /\ sql_files' = WithFile(sql_files, GoodFile("APP__ACCOUNT.sql", SelfTestTableContent))
    /\ batch_pc' = "raised"
    /\ UNCHANGED <<stage, selftest, unwritable, file_idx, manifest_data, tables_found,
                   converted_count, outputs, manifest_file, result, batch_log, exit_code,
                   stripVars, segVars, ruleVars, convVars>>

\* 02 main, lines 469-509: the test file written, the issues file emptied, the
\* test file processed and removed, 0 or 3 returned; when process_table_file
\* raises, the exception leaves main and the test file stays
ConvertSelfTest ==
    /\ stage = "convert" /\ batch_pc = "start" /\ selftest
    /\ SelfTestTablePath \notin DOMAIN unwritable
    /\ ~(IssuesPath \in DOMAIN unwritable /\ unwritable[IssuesPath].written < 0)
    /\ input_dir_exists' = TRUE
    /\ result' = process_table_file(GoodFile("APP__ACCOUNT.sql", SelfTestTableContent),
                                    outputs, unwritable, <<>>)
    /\ outputs' = result'.outputs
    /\ issues' = result'.issues
    /\ batch_log' = batch_log \o result'.log
    /\ IF result'.raised
       THEN /\ sql_files' = WithFile(sql_files,
                                     GoodFile("APP__ACCOUNT.sql", SelfTestTableContent))
            /\ exit_code' = exit_code
            /\ batch_pc' = "raised"
       ELSE /\ sql_files' = WithoutFile(sql_files, "APP__ACCOUNT.sql")
            /\ exit_code' = IF result'.ok THEN 0 ELSE 3
            /\ batch_pc' = "done"
    /\ UNCHANGED <<stage, selftest, unwritable, file_idx, manifest_data, tables_found,
                   converted_count, manifest_file, calls, stripVars, segVars, convVars>>

\* 02 main, lines 513-525: return 2 without input
ConvertMainNoInput ==
    /\ stage = "convert" /\ batch_pc = "start" /\ ~selftest
    /\ ~input_dir_exists \/ sql_files = <<>>
    /\ exit_code' = 2
    /\ batch_pc' = "done"
    /\ batch_log' = Append(batch_log, <<"error", "No input", TableDir>>)
    /\ UNCHANGED <<stage, selftest, input_dir_exists, sql_files, unwritable, file_idx,
                   manifest_data, tables_found, converted_count, outputs, manifest_file,
                   result, stripVars, segVars, ruleVars, convVars>>

\* 02 main, lines 511-536: the issues file emptied and the loop entered; when
\* the open of the issues file is refused, the exception leaves main
ConvertMainStart ==
    /\ stage = "convert" /\ batch_pc = "start" /\ ~selftest
    /\ input_dir_exists /\ sql_files # <<>>
    /\ IF IssuesPath \in DOMAIN unwritable /\ unwritable[IssuesPath].written < 0
       THEN /\ batch_pc' = "raised"
            /\ issues' = issues
       ELSE /\ batch_pc' = "loop"
            /\ issues' = <<>>
    /\ UNCHANGED <<stage, selftest, input_dir_exists, sql_files, unwritable, file_idx,
                   manifest_data, tables_found, converted_count, outputs, manifest_file,
                   result, batch_log, exit_code, calls, stripVars, segVars, convVars>>

\* one iteration of the loop of lines 538-540; when process_table_file raises,
\* the exception leaves main
ConvertProcessFile ==
    /\ stage = "convert" /\ batch_pc = "loop" /\ file_idx < Len(sql_files)
    /\ result' = process_table_file(sql_files[file_idx + 1], outputs, unwritable, issues)
    /\ outputs' = result'.outputs
    /\ issues' = result'.issues
    /\ batch_log' = batch_log \o result'.log
    /\ converted_count' = IF result'.ok THEN converted_count + 1 ELSE converted_count
    /\ file_idx' = IF result'.raised THEN file_idx ELSE file_idx + 1
    /\ batch_pc' = IF result'.raised THEN "raised" ELSE batch_pc
    /\ UNCHANGED <<stage, selftest, input_dir_exists, sql_files, unwritable,
                   manifest_data, tables_found, manifest_file, exit_code, calls,
                   stripVars, segVars, convVars>>

\* 02 main, lines 542-548
ConvertMainFinish ==
    /\ stage = "convert" /\ batch_pc = "loop" /\ file_idx = Len(sql_files)
    /\ exit_code' = ExitCodeFor(converted_count)
    /\ batch_log' = IF converted_count = 0
                    THEN Append(batch_log, <<"error", "No tables were converted",
                                             TableDir>>)
                    ELSE batch_log
    /\ batch_pc' = "done"
    /\ UNCHANGED <<stage, selftest, input_dir_exists, sql_files, unwritable, file_idx,
                   manifest_data, tables_found, converted_count, outputs, manifest_file,
                   result, stripVars, segVars, ruleVars, convVars>>

NextBatch ==
    \/ SplitSelfTestNoSample \/ SplitSelfTest
    \/ SplitMainStart \/ SplitProcessFile \/ SplitMainFinishEmpty \/ SplitMainFinish
    \/ ConvertSelfTestNoTable \/ ConvertSelfTestNoIssues \/ ConvertSelfTest
    \/ ConvertMainNoInput \/ ConvertMainStart \/ ConvertProcessFile
    \/ ConvertMainFinish

SpecBatch == InitBatch /\ [][NextBatch]_vars

\* the statements stage 1 finds in an input file, none in an unreadable one
StatementsOf(file) ==
    IF file.readable
    THEN extract_create_table_statements(strip_comments(ReadText(file.content)))
    ELSE <<>>

\* the statements of a list whose identity is extracted and whose table file
\* the file system accepts
RECURSIVE StoredStatements(_, _)
StoredStatements(stmts, bad) ==
    IF stmts = <<>> THEN <<>>
    ELSE (IF extract_schema_table_name(Head(stmts)) # <<>>
             /\ OutputFilename(extract_schema_table_name(Head(stmts))[1],
                               extract_schema_table_name(Head(stmts))[2]) \notin bad
          THEN <<Head(stmts)>> ELSE <<>>)
         \o StoredStatements(Tail(stmts), bad)

\* the manifest entries expected for the stored statements of one input file
ExpectedEntriesOf(file, bad) ==
    LET stored == StoredStatements(StatementsOf(file), bad)
    IN  [k \in 1..Len(stored) |->
            [schema |-> extract_schema_table_name(stored[k])[1],
             table |-> extract_schema_table_name(stored[k])[2],
             path |-> "data/output/original_db2_table_creation/"
                      \o extract_schema_table_name(stored[k])[1] \o "__"
                      \o extract_schema_table_name(stored[k])[2] \o ".sql",
             source_file |-> "data/input/" \o file.name]]

\* the same for the first n files of a list, in processing order
RECURSIVE ExpectedEntries(_, _, _)
ExpectedEntries(files, n, bad) ==
    IF n = 0 THEN <<>>
    ELSE ExpectedEntries(files, n - 1, bad) \o ExpectedEntriesOf(files[n], bad)

\* C11: the manifest list holds one entry per statement whose identity was
\* extracted and whose table file was written, in processing order, and nothing
\* for an unreadable file, a statement without identity or a failed write -- for
\* the input files of a run and for the sample file of a self-test alike; an
\* entry once in the list stays as it is.
C11_ManifestOnePerStoredStatement ==
    /\ []((stage = "split" /\ ~selftest) =>
              manifest_data = ExpectedEntries(sql_files, file_idx, DOMAIN unwritable))
    /\ []((stage = "split" /\ selftest) =>
              manifest_data = IF result = NoResult THEN <<>>
                              ELSE ExpectedEntriesOf(GoodFile("sample.sql", SelfTestContent),
                                                     DOMAIN unwritable))
    /\ [][/\ Len(manifest_data') >= Len(manifest_data)
          /\ SubSeq(manifest_data', 1, Len(manifest_data)) = manifest_data]_vars

\* C11 witness: the run is over; a write failed, or a file could not be
\* read, and the manifest holds entries of two statements written before and
\* after.
C11_Witness ==
    /\ stage = "split" /\ ~selftest /\ batch_pc = "done"
    /\ Len(manifest_data) >= 2
    /\ \E i \in 1..Len(batch_log) : batch_log[i][2] = "Error writing"
    /\ manifest_data[1].source_file # manifest_data[Len(manifest_data)].source_file

\* the names of the output files an input file is written to
OutputNamesOf(file) ==
    IF stage = "convert" THEN {file.name}
    ELSE {OutputFilename(extract_schema_table_name(StatementsOf(file)[k])[1],
                         extract_schema_table_name(StatementsOf(file)[k])[2]) :
             k \in 1..Len(StatementsOf(file))}

\* the file fails as a whole: it cannot be read, holds no CREATE TABLE statement
\* (stage 1), makes the conversion raise (stage 2), or none of its output files
\* can be written
FileFails(file) ==
    \/ ~file.readable
    \/ stage = "convert" /\ file.raises
    \/ OutputNamesOf(file) \subseteq DOMAIN unwritable

\* C12: the loop of either main takes the files one by one and is left only
\* behind the last one; a file that fails yields a warning or error, adds no
\* output, no manifest entry and no count, and the loop goes on; whatever
\* happens to a file, the outputs of other files and the manifest entries stay
\* as they were.
\* (A write that fails after open succeeded leaves a cut-off output file, so the
\* failing file does add to the outputs; and when the issues file cannot take
\* the line of a failure, the exception of log_issue ends the loop of stage 2.)
C12_FailuresDoNotStopTheBatch ==
    /\ [][(batch_pc = "loop" /\ batch_pc' # "loop") => file_idx = Len(sql_files)]_vars
    /\ [][file_idx' # file_idx =>
            /\ file_idx' = file_idx + 1
            /\ batch_pc' = "loop"
            /\ SubSeq(manifest_data', 1, Len(manifest_data)) = manifest_data
            /\ \A n \in DOMAIN outputs :
                  /\ n \in DOMAIN outputs'
                  /\ n \notin OutputNamesOf(sql_files[file_idx + 1])
                        => outputs'[n] = outputs[n]
            /\ FileFails(sql_files[file_idx + 1]) =>
                  /\ Len(batch_log') > Len(batch_log)
                  /\ batch_log'[Len(batch_log')][1] \in {"warning", "error"}
                  /\ outputs' = outputs
                  /\ manifest_data' = manifest_data
                  /\ tables_found' = tables_found
                  /\ converted_count' = converted_count]_vars

\* the files a stage-2 run has taken so far that are read, converted and written
ConvertedFiles ==
    {i \in 1..file_idx :
        /\ sql_files[i].readable
        /\ ~sql_files[i].raises
        /\ sql_files[i].name \notin DOMAIN unwritable}

\* what a run counts as succeeded: the tables extracted (stage 1) or the files
\* converted (stage 2); in a self-test, the entries of its manifest list or
\* its one test file
Succeeded ==
    IF stage = "split" THEN (IF selftest THEN Len(manifest_data) ELSE tables_found)
    ELSE IF ~selftest THEN converted_count
    ELSE IF result # NoResult /\ result.ok THEN 1 ELSE 0

\* C13: when main has ended -- by a return or by an exception that left it --
\* the process has one of the exit codes 0, 2, 3: 2 exactly when there is no
\* input directory or no input file, 3 exactly when there is input and nothing
\* succeeded, 0 exactly when something succeeded; the counter is the number of
\* tables extracted (stage 1) or of files converted (stage 2).
C13_ExitCodes ==
    /\ batch_pc \notin {"done", "raised"} => exit_code = -1
    /\ (batch_pc \in {"done", "raised"} /\ stage # "") =>
          LET no_input == ~selftest /\ (~input_dir_exists \/ sql_files = <<>>)
          IN  /\ exit_code \in {0, 2, 3}
              /\ exit_code = 2 <=> no_input
              /\ exit_code = 3 <=> (~no_input /\ Succeeded = 0)
              /\ exit_code = 0 <=> Succeeded >= 1
              /\ (stage = "split" /\ ~selftest) =>
                    /\ tables_found = Len(manifest_data)
                    /\ tables_found
                           = Len(ExpectedEntries(sql_files, file_idx, DOMAIN unwritable))
              /\ (stage = "convert" /\ ~selftest) =>
                    /\ converted_count = Cardinality(ConvertedFiles)
                    /\ \A i \in ConvertedFiles : sql_files[i].name \in DOMAIN outputs

\* the identity the opening line of a statement states: <<schema, table>> when
\* it names the table as identifier.identifier, <<"DEFAULT", table>> otherwise
OpeningIdentity(stmt) ==
    LET line == SplitLines(stmt)[1]
        b    == AfterCreateTable(Upper(line), 1)
        e1   == AfterRun(line, b, "w")
        e2   == AfterRun(line, AfterLit(line, e1, "."), "w")
    IN  IF e2 # 0 THEN <<SubSeq(line, b, e1 - 1), SubSeq(line, e1 + 1, e2 - 1)>>
        ELSE <<"DEFAULT", SubSeq(line, b, e1 - 1)>>

\* C14: every statement extracted from a processed file is identified by what
\* its opening line names -- (schema, table), or ("DEFAULT", table) for a single
\* identifier -- and its table file is <schema>__<table>.sql.
C14_IdentityFromOpeningLine ==
    stage = "split" =>
        \A i \in 1..file_idx :
            \A k \in 1..Len(StatementsOf(sql_files[i])) :
                LET stmt == StatementsOf(sql_files[i])[k]
                    id   == OpeningIdentity(stmt)
                    name == id[1] \o "__" \o id[2] \o ".sql"
                IN  /\ extract_schema_table_name(stmt) = id
                    /\ name \notin DOMAIN unwritable =>
                          /\ name \in DOMAIN outputs
                          /\ \E j \in 1..Len(manifest_data) :
                                /\ manifest_data[j].schema = id[1]
                                /\ manifest_data[j].table = id[2]

\* the table a CREATE TABLE or ALTER TABLE line names: its third word
ThirdWord(line) == FirstToken(Drop(line, Len("CREATE TABLE ")))

\* C20: in every output file with an ALTER TABLE ... ADD PRIMARY KEY line, that
\* line names the table exactly as the rewritten CREATE TABLE line does.
C20_AlterNamesCreatedTable ==
    stage = "convert" =>
        \A n \in DOMAIN outputs :
            LET ls == SplitLines(outputs[n])
            IN  \A a, c \in 1..Len(ls) :
                    (StartsWith(ls[a], "ALTER TABLE ") /\ StartsWith(ls[c], "CREATE TABLE "))
                        => FirstToken(Drop(ls[a], Len("ALTER TABLE "))) = ThirdWord(ls[c])

(***************************************************************************)
(* SpecStrip: strip_comments applied to a text, and again to its result.   *)
(***************************************************************************)
StripAlphabet == "/*-\na"

InitStrip ==
    /\ strip_in \in StringsUpTo(StripAlphabet, MaxTextLen)
    /\ strip_out = <<>>
    /\ IdleSeg /\ IdleRules /\ IdleConv /\ IdleBatch

\* one call of strip_comments: on the input first, then on the previous result
StripPass ==
    /\ Len(strip_out) < MaxPasses
    /\ strip_out' = Append(strip_out,
                           strip_comments(IF strip_out = <<>> THEN strip_in
                                          ELSE strip_out[Len(strip_out)]))
    /\ UNCHANGED <<strip_in, segVars, ruleVars, convVars, batchVars>>

NextStrip == StripPass

SpecStrip == InitStrip /\ [][NextStrip]_vars

\* C2: strip_comments is idempotent: stripping the result of a pass again gives
\* that result back.
C2_StripIdempotent ==
    Len(strip_out) >= 2 => strip_out[2] = strip_out[1]

(***************************************************************************)
(* SpecSegment: extract_create_table_statements, one loop iteration per    *)
(* step, over a comment-stripped input of at most MaxLines lines.          *)
(***************************************************************************)
SegLineKinds ==
    {"CREATE TABLE T (A INT);", "create table S.T (", "  A DECIMAL(5,2),",
     ");", "DROP TABLE X;", ""}

SegInputs ==
    UNION {[1..n -> SegLineKinds] : n \in 1..MaxLines}

SegLocals ==
    [current_statement |-> current_statement, paren_count |-> paren_count,
     in_create_table |-> in_create_table, statements |-> statements]

InitSegment ==
    /\ lines \in SegInputs
    /\ idx = 0
    /\ current_statement = SegStart.current_statement
    /\ paren_count = SegStart.paren_count
    /\ in_create_table = SegStart.in_create_table
    /\ statements = SegStart.statements
    /\ seg_pc = "scan"
    /\ IdleStrip /\ IdleRules /\ IdleConv /\ IdleBatch

\* the loop body on the next line, when it takes branch br
SegLine(br) ==
    /\ idx < Len(lines)
    /\ SegBranch(SegLocals, lines[idx + 1]) = br
    /\ LET st == SegStep(SegLocals, lines[idx + 1])
       IN  /\ current_statement' = st.current_statement
           /\ paren_count' = st.paren_count
           /\ in_create_table' = st.in_create_table
           /\ statements' = st.statements
    /\ idx' = idx + 1
    /\ UNCHANGED <<lines, seg_pc, stripVars, ruleVars, convVars, batchVars>>

SegSkipBlank == seg_pc = "scan" /\ SegLine("blank")

SegOpen == seg_pc = "scan" /\ SegLine("open")

SegBody == seg_pc = "scan" /\ SegLine("body")

SegOutside == seg_pc = "scan" /\ SegLine("outside")

\* after the loop: the statement still open is emitted, the list is returned
SegEnd ==
    /\ seg_pc = "scan"
    /\ idx = Len(lines)
    /\ statements' = SegFinish(SegLocals)
    /\ seg_pc' = "done"
    /\ UNCHANGED <<lines, idx, current_statement, paren_count, in_create_table,
                   stripVars, ruleVars, convVars, batchVars>>

NextSegment == SegSkipBlank \/ SegOpen \/ SegBody \/ SegOutside \/ SegEnd

SpecSegment == InitSegment /\ [][NextSegment]_vars

\* The input seen as the spec sees it: the lines that open a statement, and for
\* an opening line o the first line at or after o where the parentheses opened
\* since o are balanced and the line ends with ';'.
OpeningLines(ls) == {o \in 1..Len(ls) : IsCreateTableLine(Strip(ls[o]))}

RECURSIVE BalanceOver(_, _, _)
BalanceOver(ls, o, c) ==
    IF c < o THEN 0 ELSE BalanceOver(ls, o, c - 1) + ParenBalance(ls[c])

ClosingLines(ls, o) ==
    {c \in o..Len(ls) : BalanceOver(ls, o, c) = 0 /\ EndsWith(Strip(ls[c]), ";")}

WellFormedSingle(ls) ==
    /\ Cardinality(OpeningLines(ls)) = 1
    /\ ClosingLines(ls, Min(OpeningLines(ls))) # {}

RECURSIVE NonBlankStripped(_)
NonBlankStripped(ls) ==
    IF ls = <<>> THEN <<>>
    ELSE (IF Strip(Head(ls)) = "" THEN <<>> ELSE <<Strip(Head(ls))>>)
         \o NonBlankStripped(Tail(ls))

TheStatement(ls) ==
    LET o == Min(OpeningLines(ls))
        c == Min(ClosingLines(ls, o))
    IN  Join(NonBlankStripped(SubSeq(ls, o, c)), "\n")

\* C3: an input holding exactly one well-formed CREATE TABLE statement, on one
\* line or many, with any other lines before and after it, yields exactly one
\* statement, made of the lines of that statement and nothing else.
C3_SingleStatementExact ==
    (seg_pc = "done" /\ WellFormedSingle(lines))
        => statements = <<TheStatement(lines)>>

\* the opening lines of the input, in input order
RECURSIVE OpeningSeq(_, _)
OpeningSeq(ls, from) ==
    IF from > Len(ls) THEN <<>>
    ELSE (IF Strip(ls[from]) # ""
             /\ AfterRun(Upper(Strip(ls[from])),
                         AfterCreateTable(Upper(Strip(ls[from])), 1), "w") # 0
          THEN <<from>> ELSE <<>>)
         \o OpeningSeq(ls, from + 1)

\* the running depth after line idx + 1, were that line taken into the open
\* statement: the line's own balance for an opening line, the depth so far plus
\* the line's balance for a body line
DepthAfterNext ==
    LET line == Strip(lines[idx + 1])
    IN  (IF idx + 1 \in OpeningLines(lines) THEN 0 ELSE paren_count)
        + Count(line, "(") - Count(line, ")")

\* line idx + 1 belongs to the open statement: it opens one, or one is open
NextBelongs ==
    /\ Strip(lines[idx + 1]) # ""
    /\ (idx + 1 \in OpeningLines(lines) \/ in_create_table)

\* C16: a line of the open statement, the opening line included, after which the
\* depth is <= 0 and which ends with ';' closes the statement: the statement is
\* emitted ending with that line and the scanner is idle again, with an empty
\* accumulator and depth 0.
C16_ClosesAtBalancedSemicolon ==
    [][(seg_pc = "scan" /\ idx' = idx + 1 /\ NextBelongs
            /\ DepthAfterNext <= 0 /\ EndsWith(Strip(lines[idx + 1]), ";"))
        => /\ in_create_table' = FALSE
           /\ current_statement' = <<>>
           /\ paren_count' = 0
           /\ Len(statements') > Len(statements)
           /\ EndsWith(statements'[Len(statements')], Strip(lines[idx + 1]))]_vars

\* C17: the statements returned are as many as the opening lines of the input;
\* each starts with an opening line and holds no blank line.
C17_OneStatementPerOpening ==
    seg_pc = "done" =>
        /\ Len(statements) = Len(OpeningSeq(lines, 1))
        /\ \A k \in 1..Len(statements) :
              LET ls == SplitLines(statements[k])
              IN  /\ AfterRun(Upper(ls[1]), AfterCreateTable(Upper(ls[1]), 1), "w") # 0
                  /\ \A j \in 1..Len(ls) : Strip(ls[j]) # ""

\* C17 witness: the scan is over; one statement was emitted when the next opening
\* line arrived or when it closed, and the last one at the end of the input, with
\* parentheses still open.
C17_Witness ==
    /\ seg_pc = "done"
    /\ Len(statements) >= 2
    /\ in_create_table
    /\ paren_count > 0

\* the non-blank lines from the opening line o up to line c, joined
LinesOfStatement(ls, o, c) == Join(NonBlankStripped(SubSeq(ls, o, c)), "\n")

\* the last opening line at or before line i, 0 when there is none
LastOpening(ls, i) ==
    LET os == {o \in 1..i : Strip(ls[o]) # ""
                  /\ AfterRun(Upper(Strip(ls[o])),
                              AfterCreateTable(Upper(Strip(ls[o])), 1), "w") # 0}
    IN  IF os = {} THEN 0 ELSE CHOOSE o \in os : \A x \in os : x <= o

\* the k-th returned statement begins at the k-th opening line and holds lines
\* from there on only, none at or after the next opening line
InOpeningOrder ==
    LET os == OpeningSeq(lines, 1)
    IN  /\ Len(statements) <= Len(os)
        /\ \A k \in 1..Len(statements) :
              \E c \in os[k]..(IF k < Len(os) THEN os[k + 1] - 1 ELSE Len(lines)) :
                  statements[k] = LinesOfStatement(lines, os[k], c)

\* C18: an opening line that arrives while a statement is open emits the open
\* statement first, made of exactly the non-blank lines from its own opening
\* line up to the line before the new one, and starts the new statement at the
\* new line's own balance; the statements returned are in the order of their
\* opening lines, on disjoint ranges of lines.
C18_FlushBeforeNewStatement ==
    /\ [][(seg_pc = "scan" /\ idx' = idx + 1 /\ in_create_table
               /\ Strip(lines[idx + 1]) # ""
               /\ idx + 1 = LastOpening(lines, idx + 1))
           => /\ statements' =
                     Append(statements,
                            LinesOfStatement(lines, LastOpening(lines, idx), idx))
              /\ current_statement' = <<Strip(lines[idx + 1])>>
              /\ paren_count' = Count(Strip(lines[idx + 1]), "(")
                                - Count(Strip(lines[idx + 1]), ")")
              /\ in_create_table']_vars
    /\ [](seg_pc = "done" => InOpeningOrder)

\* C18 witness: an opening line was just taken while a statement without its
\* closing ';' was open; that statement is the last one emitted.
C18_Witness ==
    /\ seg_pc = "scan"
    /\ idx >= 2
    /\ idx = LastOpening(lines, idx)
    /\ current_statement = <<Strip(lines[idx])>>
    /\ Len(statements) >= 1
    /\ ~EndsWith(statements[Len(statements)], ";")

====
